---- MODULE Spec2Model ----
(***************************************************************************)
(* A model of the file-system router of src/src/router.ts: the URL trie    *)
(* (UrlNode.insert / UrlNode.lookup), the LRU caches, the route-table      *)
(* builder (createTree) and the request dispatcher (handler).              *)
(*                                                                         *)
(* Strings are TLA+ strings; the JavaScript string methods the code uses   *)
(* (startsWith, endsWith, slice, substring, split) are computed on them.   *)
(* A trie is a function from node paths (the sequence of child keys from   *)
(* the root) to node records; "children.has(k)" of the node at path p is   *)
(* "Append(p, k) \in DOMAIN T".                                            *)
(***************************************************************************)
EXTENDS Integers, Sequences, FiniteSets, TLC

(***************************************************************************)
(* JavaScript values and string methods                                    *)
(***************************************************************************)

\* null (a value no string of the model equals)
Null == "<null>"

\* U+2026 HORIZONTAL ELLIPSIS, written as an ASCII stand-in
Ellipsis == "~"

StartsWith(s, p) == Len(s) >= Len(p) /\ SubSeq(s, 1, Len(p)) = p

EndsWith(s, p) == Len(s) >= Len(p) /\ SubSeq(s, Len(s) - Len(p) + 1, Len(s)) = p

\* s.slice(1, -1)
SliceInner(s) == IF Len(s) >= 2 THEN SubSeq(s, 2, Len(s) - 1) ELSE ""

\* s.substring(n)
Substring(s, n) == IF Len(s) > n THEN SubSeq(s, n + 1, Len(s)) ELSE ""

\* s.split('/'), scanning from character i with the current piece cur
RECURSIVE SplitFrom(_, _, _)
SplitFrom(s, i, cur) ==
  IF i > Len(s) THEN <<cur>>
  ELSE IF SubSeq(s, i, i) = "/" THEN <<cur>> \o SplitFrom(s, i + 1, "")
  ELSE SplitFrom(s, i + 1, cur \o SubSeq(s, i, i))

Split(s) == SplitFrom(s, 1, "")

\* array.includes(x)
Includes(seq, x) == \E i \in 1..Len(seq) : seq[i] = x

(***************************************************************************)
(* UrlNode                                                                 *)
(***************************************************************************)

\* new UrlNode(): the field initialisers
NewUrlNode ==
  [placeholder |-> TRUE, slugName |-> Null, restSlugName |-> Null,
   optionalRestSlugName |-> Null, data |-> Null]

\* a trie holding only its root node
EmptyTrie == (<<>> :> NewUrlNode)

\* children.has(key) of the node at path node
HasChild(T, node, key) == Append(node, key) \in DOMAIN T

\* the error messages of #insert, by kind
ErrNone == ""
ErrParallel == "You cannot have two parallel pages that resolve to the same path."
ErrCatchAllLast == "Catch-all must be the last part of the URL."
ErrEllipsis == "Detected ellipsis."
ErrInvalidName == "Invalid segment name."
ErrDifferentSlug == "You cannot use different slug names for the same dynamic path."
ErrDuplicateSlug == "Duplicate slug name within a single dynamic path."
ErrReqOpt == "Conflicting required and optional catch-all routes at the same level."
ErrOptReq == "Conflicting optional and required catch-all routes at the same level."
ErrOptionalParam == "Optional route parameters are not yet supported."

\* handleSlug: the error it throws, or ErrNone when it pushes nextSlug
HandleSlugAnyName(previousSlug, nextSlug, slugNames) ==
  IF Includes(slugNames, nextSlug) THEN ErrDuplicateSlug ELSE ErrNone
HandleSlug(previousSlug, nextSlug, slugNames) ==
  IF previousSlug # Null /\ previousSlug # nextSlug THEN ErrDifferentSlug
  ELSE IF Includes(slugNames, nextSlug) THEN ErrDuplicateSlug
  ELSE ErrNone

\* what #insert leaves: the trie (also when it throws), the error thrown
\* (ErrNone: it returned) and, for the parallel-pages error, this.data
Inserted(T, err, held) == [trie |-> T, err |-> err, held |-> held]

\* the parse of one bracketed segment: its name, the flags, and the error of
\* the three checks that do not depend on the node
ParseSegmentFlagKept(nextSegment, isCatchAll) ==
  LET name1 == SliceInner(nextSegment)
      isOptional == StartsWith(name1, "[") /\ EndsWith(name1, "]")
      name2 == IF isOptional THEN SliceInner(name1) ELSE name1
      catchAll == StartsWith(name2, "...")
      name3 == IF catchAll THEN Substring(name2, 3) ELSE name2
  IN [segmentName |-> name3,
      isOptional |-> isOptional,
      isCatchAll |-> isCatchAll,
      err |-> IF StartsWith(name2, Ellipsis) THEN ErrEllipsis
              ELSE IF StartsWith(name3, "[") \/ EndsWith(name3, "]") \/ StartsWith(name3, ".")
                   THEN ErrInvalidName
              ELSE ErrNone]
ParseSegment(nextSegment, isCatchAll) ==
  LET name1 == SliceInner(nextSegment)
      isOptional == StartsWith(name1, "[") /\ EndsWith(name1, "]")
      name2 == IF isOptional THEN SliceInner(name1) ELSE name1
      catchAll == StartsWith(name2, "...")
      name3 == IF catchAll THEN Substring(name2, 3) ELSE name2
  IN [segmentName |-> name3,
      isOptional |-> isOptional,
      isCatchAll |-> (isCatchAll \/ catchAll),
      err |-> IF StartsWith(name2, Ellipsis) THEN ErrEllipsis
              ELSE IF StartsWith(name3, "[") \/ EndsWith(name3, "]") \/ StartsWith(name3, ".")
                   THEN ErrInvalidName
              ELSE ErrNone]

\* lines 157-176: the check made on the node before handleSlug
CatchAllCheckOptionalOnly(this, p) ==
  IF p.isCatchAll
  THEN (IF p.isOptional
        THEN (IF this.restSlugName # Null THEN ErrReqOpt ELSE ErrNone)
        ELSE ErrNone)
  ELSE (IF p.isOptional THEN ErrOptionalParam ELSE ErrNone)
CatchAllCheck(this, p) ==
  IF p.isCatchAll
  THEN (IF p.isOptional
        THEN (IF this.restSlugName # Null THEN ErrReqOpt ELSE ErrNone)
        ELSE (IF this.optionalRestSlugName # Null THEN ErrOptReq ELSE ErrNone))
  ELSE (IF p.isOptional THEN ErrOptionalParam ELSE ErrNone)

\* children.set(key, new UrlNode()) unless the child exists
WithChild(T, node, key) ==
  IF HasChild(T, node, key) THEN T ELSE (Append(node, key) :> NewUrlNode) @@ T

\* #insert at the node at path node; the result is the trie as the call
\* leaves it (also when it throws) and the error thrown (ErrNone: returned)
RECURSIVE InsertAt(_, _, _, _, _, _, _)
InsertAt(T, node, urlPaths, index, slugNames, isCatchAll, data) ==
  LET this == T[node] IN
  IF index = Len(urlPaths) THEN
    IF this.data # Null THEN Inserted(T, ErrParallel, this.data)
    ELSE Inserted([T EXCEPT ![node].placeholder = FALSE, ![node].data = data],
                  ErrNone, Null)
  ELSE IF isCatchAll THEN Inserted(T, ErrCatchAllLast, Null)
  ELSE
    LET nextSegment == urlPaths[index + 1] IN
    IF ~(StartsWith(nextSegment, "[") /\ EndsWith(nextSegment, "]")) THEN
      InsertAt(WithChild(T, node, nextSegment), Append(node, nextSegment),
               urlPaths, index + 1, slugNames, isCatchAll, data)
    ELSE
      LET p == ParseSegment(nextSegment, isCatchAll)
          name == p.segmentName
          \* the field the name is bound to, its child key, and the check
          \* made before handleSlug
          field == IF p.isCatchAll
                   THEN (IF p.isOptional THEN "optionalRestSlugName" ELSE "restSlugName")
                   ELSE "slugName"
          key == IF p.isCatchAll
                 THEN (IF p.isOptional THEN "[[...]]" ELSE "[...]")
                 ELSE "[]"
          pre == CatchAllCheck(this, p)
          hs == HandleSlug(this[field], name, slugNames)
      IN
      IF p.err # ErrNone THEN Inserted(T, p.err, Null)
      ELSE IF pre # ErrNone THEN Inserted(T, pre, Null)
      ELSE IF hs # ErrNone THEN Inserted(T, hs, Null)
      ELSE InsertAt(WithChild([T EXCEPT ![node][field] = name], node, key),
                    Append(node, key), urlPaths, index + 1,
                    Append(slugNames, name), p.isCatchAll, data)

\* the segments insert keeps: non-empty and not wrapped in parentheses
KeptSegmentGroups(segment) == segment # ""
KeptSegment(segment) ==
  segment # "" /\ ~(StartsWith(segment, "(") /\ EndsWith(segment, ")"))

\* segments.filter(KeptSegment)
RECURSIVE FilterKept(_)
FilterKept(segments) ==
  IF segments = <<>> THEN <<>>
  ELSE (IF KeptSegment(Head(segments)) THEN <<Head(segments)>> ELSE <<>>)
       \o FilterKept(Tail(segments))

\* UrlNode.insert on the root of T
Insert(T, urlPath, data) ==
  InsertAt(T, <<>>, FilterKept(Split(urlPath)), 0, <<>>, FALSE, data)

(***************************************************************************)
(* UrlNode.lookup.  #lookup is an async function: a call runs until its    *)
(* first await, and every await is a point where other tasks (another      *)
(* request, the builder) may run.  A lookup in flight is therefore a       *)
(* machine: the stack of #lookup calls suspended at an await (each frame   *)
(* holds its node, its params and the line of its await) and what the top  *)
(* of the stack waits for.  Frames read the trie when they run, so a trie  *)
(* changed between two steps is seen changed.                              *)
(***************************************************************************)

\* {}: params without a key
EmptyParams == [name \in {} |-> [list |-> FALSE, v |-> <<>>]]

\* params[name] = segment (a slug) / params[name] = segments (a catch-all)
SlugValueAsList(segment) == [list |-> TRUE, v |-> <<segment>>]
SlugValue(segment) == [list |-> FALSE, v |-> <<segment>>]
ListValue(segments) == [list |-> TRUE, v |-> segments]

\* { ...params, [name]: value }
WithParam(params, name, value) == (name :> value) @@ params

\* what lookup resolves to: { match, params } or null
Match(data, params) == [match |-> data, params |-> params]
NoMatch == [match |-> Null, params |-> EmptyParams]

\* urlPaths.slice(index)
SliceFromNext(urlPaths, index) == SubSeq(urlPaths, index + 2, Len(urlPaths))
SliceFrom(urlPaths, index) == SubSeq(urlPaths, index + 1, Len(urlPaths))

Frame(node, params, pc) == [node |-> node, params |-> params, pc |-> pc]

\* the top call awaits validate(data)
AwaitValidate(stack, data) ==
  [stack |-> stack, wait |-> "validate", data |-> data, result |-> NoMatch]

\* a call returned result: its caller, the top of stack, awaits it; with no
\* caller the lookup is settled
Return(stack, result) ==
  [stack |-> stack, wait |-> IF stack = <<>> THEN "done" ELSE "return",
   data |-> Null, result |-> result]

\* the throw of #lookup rejects every call of the stack
Thrown == [stack |-> <<>>, wait |-> "throw", data |-> Null, result |-> NoMatch]

\* lines 247-255: the optional catch-all child, then null
TryOptionalRest(T, urlPaths, stack, node, params) ==
  LET this == T[node] IN
  IF this.optionalRestSlugName # Null /\ T[Append(node, "[[...]]")].data # Null
  THEN AwaitValidate(Append(stack, Frame(node, params, "L249")),
                     T[Append(node, "[[...]]")].data)
  ELSE Return(stack, NoMatch)

\* lines 239-245: the required catch-all child
TryRestGivesUp(T, urlPaths, stack, node, params) == Return(stack, NoMatch)
TryRest(T, urlPaths, stack, node, params) ==
  LET this == T[node] IN
  IF this.restSlugName # Null /\ T[Append(node, "[...]")].data # Null
  THEN AwaitValidate(Append(stack, Frame(node, params, "L241")),
                     T[Append(node, "[...]")].data)
  ELSE TryOptionalRest(T, urlPaths, stack, node, params)

RECURSIVE Enter(_, _, _, _, _)

\* lines 233-237: the dynamic-slug child
TrySlug(T, urlPaths, stack, node, params) ==
  LET this == T[node]
      nextSegment == urlPaths[Len(stack) + 1]
  IN
  IF this.slugName # Null
  THEN Enter(T, urlPaths, Append(stack, Frame(node, params, "L235")),
             Append(node, "[]"),
             WithParam(params, this.slugName, SlugValue(nextSegment)))
  ELSE TryRest(T, urlPaths, stack, node, params)

\* lines 225-231: the literal child
TryLiteralSkipped(T, urlPaths, stack, node, params) ==
  TrySlug(T, urlPaths, stack, node, params)
TryLiteral(T, urlPaths, stack, node, params) ==
  LET nextSegment == urlPaths[Len(stack) + 1] IN
  IF HasChild(T, node, nextSegment)
  THEN Enter(T, urlPaths, Append(stack, Frame(node, params, "L229")),
             Append(node, nextSegment), params)
  ELSE TrySlug(T, urlPaths, stack, node, params)

\* lines 214-222: no segment left, the optional catch-all child with []
AfterTerminalNull(T, urlPaths, stack, node, params) == Return(stack, NoMatch)
AfterTerminal(T, urlPaths, stack, node, params) ==
  LET this == T[node] IN
  IF this.optionalRestSlugName # Null /\ T[Append(node, "[[...]]")].data # Null
  THEN AwaitValidate(Append(stack, Frame(node, params, "L216")),
                     T[Append(node, "[[...]]")].data)
  ELSE Return(stack, NoMatch)

\* a call of #lookup on the node at path node with index = Len(stack), run
\* to its first await or its return; stack holds the suspended callers
Enter(T, urlPaths, stack, node, params) ==
  LET this == T[node]
      index == Len(stack)
  IN
  IF index = Len(urlPaths) THEN
    IF ~this.placeholder THEN
      IF this.optionalRestSlugName # Null THEN Thrown
      ELSE IF this.data # Null
           THEN AwaitValidate(Append(stack, Frame(node, params, "L211")), this.data)
      ELSE AfterTerminal(T, urlPaths, stack, node, params)
    ELSE AfterTerminal(T, urlPaths, stack, node, params)
  ELSE TryLiteral(T, urlPaths, stack, node, params)

\* the top call resumes from its await with the awaited value: ok for a
\* validate, m.result for a returned call
Resume(T, urlPaths, m, ok) ==
  LET top == m.stack[Len(m.stack)]
      stack == SubSeq(m.stack, 1, Len(m.stack) - 1)
      index == Len(stack)
      node == top.node
      params == top.params
      this == T[node]
  IN
  CASE top.pc = "L211" ->
         IF ok THEN Return(stack, Match(this.data, params))
         ELSE AfterTerminal(T, urlPaths, stack, node, params)
    [] top.pc = "L216" ->
         IF ok THEN Return(stack, Match(T[Append(node, "[[...]]")].data,
                                        WithParam(params, this.optionalRestSlugName,
                                                  ListValue(<<>>))))
         ELSE Return(stack, NoMatch)
    [] top.pc = "L229" ->
         IF m.result # NoMatch THEN Return(stack, m.result)
         ELSE TrySlug(T, urlPaths, stack, node, params)
    [] top.pc = "L235" ->
         IF m.result # NoMatch THEN Return(stack, m.result)
         ELSE TryRest(T, urlPaths, stack, node, params)
    [] top.pc = "L241" ->
         IF ok THEN Return(stack, Match(T[Append(node, "[...]")].data,
                                        WithParam(params, this.restSlugName,
                                                  ListValue(SliceFrom(urlPaths, index)))))
         ELSE TryOptionalRest(T, urlPaths, stack, node, params)
    [] top.pc = "L249" ->
         IF ok THEN Return(stack, Match(T[Append(node, "[[...]]")].data,
                                        WithParam(params, this.optionalRestSlugName,
                                                  ListValue(SliceFrom(urlPaths, index)))))
         ELSE Return(stack, NoMatch)

\* urlPath.split('/').filter(Boolean)
RECURSIVE FilterBoolean(_)
FilterBoolean(segments) ==
  IF segments = <<>> THEN <<>>
  ELSE (IF Head(segments) # "" THEN <<Head(segments)>> ELSE <<>>)
       \o FilterBoolean(Tail(segments))

\* UrlNode.lookup on the root of T, run to its first await
LookupStart(T, urlPath) ==
  Enter(T, FilterBoolean(Split(urlPath)), <<>>, <<>>, EmptyParams)

\* a lookup on a trie that does not change while it runs, with validate
\* answering valid[data]: the machine run until it is settled
RECURSIVE Settle(_, _, _, _)
Settle(T, urlPaths, m, valid) ==
  IF m.wait \in {"done", "throw"} THEN m
  ELSE Settle(T, urlPaths,
              Resume(T, urlPaths, m, IF m.wait = "validate" THEN valid[m.data] ELSE FALSE),
              valid)

Lookup(T, urlPath, valid) ==
  Settle(T, FilterBoolean(Split(urlPath)), LookupStart(T, urlPath), valid)

\* the nodes the #lookup calls of one lookup run on, in call order, the call
\* on the node at path node with the given index first; found tells whether
\* that call returned a match
RECURSIVE Entered(_, _, _, _, _)
Entered(T, urlPaths, node, index, valid) ==
  LET this == T[node]
      ok(n) == T[n].data # Null /\ valid[T[n].data]
      none == [nodes |-> <<>>, found |-> FALSE]
  IN
  IF index = Len(urlPaths) THEN
    [nodes |-> <<node>>,
     found |-> \/ ~this.placeholder /\ ok(node)
               \/ this.optionalRestSlugName # Null /\ ok(Append(node, "[[...]]"))]
  ELSE
    LET nextSegment == urlPaths[index + 1]
        child == IF HasChild(T, node, nextSegment)
                 THEN Entered(T, urlPaths, Append(node, nextSegment), index + 1, valid)
                 ELSE none
        slug == IF ~child.found /\ this.slugName # Null
                THEN Entered(T, urlPaths, Append(node, "[]"), index + 1, valid)
                ELSE none
    IN [nodes |-> <<node>> \o child.nodes \o slug.nodes,
        found |-> \/ child.found \/ slug.found
                  \/ this.restSlugName # Null /\ ok(Append(node, "[...]"))
                  \/ this.optionalRestSlugName # Null /\ ok(Append(node, "[[...]]"))]

(***************************************************************************)
(* The route files and the builder's path of a file (createTree, lines     *)
(* 311-314).  A file is named by its path below fsRoot.                    *)
(***************************************************************************)

\* s.replace(/\\/g, '/')
RECURSIVE BackslashToSlash(_)
BackslashToSlash(s) ==
  IF s = "" THEN ""
  ELSE (IF Head(s) = "\\" THEN "/" ELSE Head(s)) \o BackslashToSlash(Tail(s))

\* s.includes(part)
Contains(s, part) ==
  \E i \in 1..(Len(s) - Len(part) + 1) : SubSeq(s, i, i + Len(part) - 1) = part

\* shouldProcessFile
ShouldProcessFile(path0) ==
  LET path == BackslashToSlash(path0) IN
  /\ EndsWith(path, ".ts")
  /\ ~(\/ Contains(path, "node_modules/")
       \/ Contains(path, "coverage/")
       \/ Contains(path, "/.")
       \/ Contains(path, "/_")
       \/ EndsWith(path, ".d.ts")
       \/ EndsWith(path, ".spec.ts")
       \/ EndsWith(path, ".test.ts")
       \/ EndsWith(path, "_test.ts"))

\* line 313: the URL path of a file
RoutePath(path0) ==
  LET p1 == BackslashToSlash(path0)
      p2 == IF EndsWith(p1, ".ts") THEN SubSeq(p1, 1, Len(p1) - 3) ELSE p1
      p3 == IF EndsWith(p2, "/index") THEN SubSeq(p2, 1, Len(p2) - 6)
            ELSE IF EndsWith(p2, "/") THEN SubSeq(p2, 1, Len(p2) - 1)
            ELSE p2
  IN IF StartsWith(p3, "/") THEN p3 ELSE "/" \o p3

\* the fsRoot the router is created with
FsRoot == "/srv"

\* toFileUrl(file.path).href, for paths without characters a URL escapes
FileUrl(path) == "file://" \o FsRoot \o path

\* UrlNode.#sep where Deno.build.os is not windows
Sep == "/"

\* s.replace(/\//g, UrlNode.#sep)
RECURSIVE SlashToSep(_)
SlashToSep(s) ==
  IF s = "" THEN ""
  ELSE (IF Head(s) = "/" THEN Sep ELSE Head(s)) \o SlashToSep(Tail(s))

\* UrlNode.#userFriendlyPath, with UrlNode.#cwd = dir
UserFriendlyPath(fileUrl, dir) == SlashToSep(Substring(fileUrl, 8 + Len(dir)))

\* the message of the error insert threw, r being what #insert left
ErrorMessage(r, data, dir) ==
  IF r.err = ErrParallel
  THEN ErrParallel \o " Please check " \o UserFriendlyPath(r.held, dir)
       \o " and " \o UserFriendlyPath(data, dir) \o "."
  ELSE r.err

(***************************************************************************)
(* The trie on its own: insert and lookup applied to one trie.             *)
(***************************************************************************)

\* the files inserted into the trie under test
TrieFiles ==
  { "/posts/archive.ts", "/posts/[id].ts", "/posts/[slug].ts",
    "/p2/[id].ts", "/p2/[...rest].ts",
    "/files/[...path].ts", "/files/[[...path]].ts",
    "/p3.ts", "/p3/[[...rest]].ts", "/x/[...a]/b.ts",
    "/(g)/posts/archive.ts", "/x/[[...a]]/b.ts",
    "/p2/[id]/[...id].ts", "/files/[...other].ts" }

\* the directories the process can be started in (Deno.cwd())
Cwds == { "/srv", "/home/app" }

\* the paths looked up
TriePaths ==
  { "/", "/posts", "/posts/archive", "/posts/42", "/posts/42/extra",
    "/p2/1", "/p2/1/2", "/files", "/files/a", "/files/a/b/c", "/p3", "/p3/1",
    "/posts/[]", "/files/[...]", "/files/[[...]]" }

\* most inserts made into the trie under test
MaxInserts == 3

\* routes that nest, of the test's file list, and the paths looked up on them
NestedFiles ==
  { "/blog/[id].ts", "/blog/[id]/comments/[cid].ts", "/[...rest].ts",
    "/p2/[id].ts", "/p2/[...rest].ts", "/[root-slug].ts",
    "/p3.ts", "/p3/[[...rest]]/b.ts" }
NestedPaths ==
  { "/", "/1/2/3", "/blog/1", "/blog/1/2", "/blog/1/comments/2", "/p2/1", "/p2/1/2",
    "/p3" }

VARIABLES
  cwd,         \* UrlNode.#cwd
  tree,        \* the trie under test
  routes,      \* the files whose insert returned
  nFailed,     \* the number of inserts that threw
  lastInsert,  \* the last insert: its file and its error
  lk           \* the last lookup since the last insert: path, rejected targets, outcome

varsTrie == <<cwd, tree, routes, nFailed, lastInsert, lk>>

NoInsert == [file |-> Null, err |-> ErrNone, message |-> ErrNone]
NoLookup == [urlPath |-> Null, invalid |-> {}, out |-> Return(<<>>, NoMatch)]

\* the targets of the trie T
Targets(T) == { T[n].data : n \in DOMAIN T } \ {Null}

\* validate as a function of the target: every target but those of invalid
Validate(T, invalid) == [d \in Targets(T) |-> d \notin invalid]

InitTrie ==
  /\ cwd \in Cwds
  /\ tree = EmptyTrie
  /\ routes = {}
  /\ nFailed = 0
  /\ lastInsert = NoInsert
  /\ lk = NoLookup

\* root.insert(RoutePath(f), FileUrl(f))
TInsert(f) ==
  LET r == Insert(tree, RoutePath(f), FileUrl(f)) IN
  /\ Cardinality(routes) + nFailed < MaxInserts
  /\ tree' = r.trie
  /\ routes' = IF r.err = ErrNone THEN routes \cup {f} ELSE routes
  /\ nFailed' = IF r.err = ErrNone THEN nFailed ELSE nFailed + 1
  /\ lastInsert' = [file |-> f, err |-> r.err,
                     message |-> ErrorMessage(r, FileUrl(f), cwd)]
  /\ lk' = NoLookup
  /\ UNCHANGED cwd

\* await root.lookup(urlPath, validate); lookup leaves the trie as it is, so
\* one lookup is recorded per trie
TLookup(urlPath, invalid) ==
  /\ lk = NoLookup
  /\ lk' = [urlPath |-> urlPath, invalid |-> invalid,
            out |-> Lookup(tree, urlPath, Validate(tree, invalid))]
  /\ UNCHANGED <<cwd, tree, routes, nFailed, lastInsert>>


(***************************************************************************)
(* LRUCache.  The Map is the sequence of its entries in insertion order,   *)
(* oldest first.  An entry also carries the number of the trie that was    *)
(* the router's root when its value began to be computed (made), which the *)
(* code does not store and never reads.                                    *)
(***************************************************************************)

Entry(key, val, made) == [key |-> key, val |-> val, made |-> made]

\* the position of key in the Map, 0 when it is absent
IndexOf(cache, key) ==
  IF \E i \in 1..Len(cache) : cache[i].key = key
  THEN CHOOSE i \in 1..Len(cache) : cache[i].key = key
  ELSE 0

\* the Map without its entry at position i
DeleteAt(cache, i) == SubSeq(cache, 1, i - 1) \o SubSeq(cache, i + 1, Len(cache))

\* #get: the Map after the refresh of key
CacheTouchKept(cache, key) == cache
CacheTouch(cache, key) ==
  LET i == IndexOf(cache, key) IN
  IF i = 0 THEN cache ELSE Append(DeleteAt(cache, i), cache[i])

\* #set
CacheSetGrows(cache, max, key, val, made) ==
  LET i == IndexOf(cache, key) IN
  IF i # 0 THEN Append(DeleteAt(cache, i), Entry(key, val, made))
  ELSE Append(cache, Entry(key, val, made))
CacheSet(cache, max, key, val, made) ==
  LET i == IndexOf(cache, key) IN
  IF i # 0 THEN Append(DeleteAt(cache, i), Entry(key, val, made))
  ELSE IF Len(cache) = max THEN Append(Tail(cache), Entry(key, val, made))
  ELSE Append(cache, Entry(key, val, made))

\* clear
CacheClearKept(cache) == cache
CacheClear(cache) == <<>>

\* new LRUCache(100)
CacheMax == 100

(***************************************************************************)
(* The dispatcher's pure steps                                             *)
(***************************************************************************)

\* const methods = new Set([...])
SupportedMethodsAndOptions == {"GET", "HEAD", "POST", "PUT", "DELETE", "PATCH", "OPTIONS"}
SupportedMethods == {"GET", "HEAD", "POST", "PUT", "DELETE", "PATCH"}

\* req.url.length > 8192
MaxUrlLength == 8192

\* line 358: the URL of the request q is too long
UrlTooLongInclusive(q) == q.length >= MaxUrlLength
UrlTooLong(q) == q.length > MaxUrlLength

\* the urlRoot the router is created with
UrlRoot == "api"

\* a hexadecimal digit
IsHex(c) ==
  c \in {"0", "1", "2", "3", "4", "5", "6", "7", "8", "9",
         "a", "b", "c", "d", "e", "f", "A", "B", "C", "D", "E", "F"}

\* decodeURI(s) throws URIError: a '%' of s is not followed by two
\* hexadecimal digits
RECURSIVE Malformed(_)
Malformed(s) ==
  IF s = "" THEN FALSE
  ELSE IF Head(s) = "%"
       THEN \/ Len(s) < 3
            \/ ~IsHex(SubSeq(s, 2, 2))
            \/ ~IsHex(SubSeq(s, 3, 3))
            \/ Malformed(Substring(s, 3))
  ELSE Malformed(Tail(s))

\* decodeURI, for the escape the requests of the model use (%20)
RECURSIVE DecodeURI(_)
DecodeURI(s) ==
  IF s = "" THEN ""
  ELSE IF StartsWith(s, "%20") THEN " " \o DecodeURI(Substring(s, 3))
  ELSE Head(s) \o DecodeURI(Tail(s))

\* url.pathname = path: the URL's setter escapes what decodeURI unescaped
RECURSIVE SetPathname(_)
SetPathname(s) ==
  IF s = "" THEN ""
  ELSE (IF Head(s) = " " THEN "%20" ELSE Head(s)) \o SetPathname(Tail(s))

\* the segments posixNormalize keeps of an absolute path: '' and '.' are
\* dropped, '..' drops the segment kept before it
RECURSIVE NormalSegments(_, _)
NormalSegments(segments, kept) ==
  IF segments = <<>> THEN kept
  ELSE LET seg == Head(segments) IN
       IF seg = "" \/ seg = "." THEN NormalSegments(Tail(segments), kept)
       ELSE IF seg = ".."
            THEN NormalSegments(Tail(segments),
                                IF kept = <<>> THEN kept ELSE SubSeq(kept, 1, Len(kept) - 1))
       ELSE NormalSegments(Tail(segments), Append(kept, seg))

\* segments.join('/')
RECURSIVE Join(_)
Join(segments) ==
  IF segments = <<>> THEN ""
  ELSE IF Len(segments) = 1 THEN Head(segments)
  ELSE Head(segments) \o "/" \o Join(Tail(segments))

\* posixNormalize of an absolute path (a URL's pathname starts with '/')
PosixNormalize(path) ==
  LET body == Join(NormalSegments(Split(path), <<>>)) IN
  "/" \o body \o (IF body # "" /\ EndsWith(path, "/") THEN "/" ELSE "")

\* urlRootRE.test(path): ^/?urlRoot(?:/|$)
UrlRootMatchesPrefix(path) ==
  \E lead \in {"", "/"} : StartsWith(path, lead \o UrlRoot)
UrlRootMatches(path) ==
  \E lead \in {"", "/"} :
    LET prefix == lead \o UrlRoot IN
    /\ StartsWith(path, prefix)
    /\ (Len(path) = Len(prefix) \/ SubSeq(path, Len(prefix) + 1, Len(prefix) + 1) = "/")

\* path.replace(urlRoot, ''): the first occurrence is removed
StripUrlRoot(path) ==
  IF ~Contains(path, UrlRoot) THEN path
  ELSE LET i == CHOOSE k \in 1..(Len(path) - Len(UrlRoot) + 1) :
                  /\ SubSeq(path, k, k + Len(UrlRoot) - 1) = UrlRoot
                  /\ \A j \in 1..(k - 1) : SubSeq(path, j, j + Len(UrlRoot) - 1) # UrlRoot
       IN SubSeq(path, 1, i - 1) \o SubSeq(path, i + Len(UrlRoot), Len(path))

\* the cache keys `${normalizedPath}:${method}` and `${file}:${method}`
CacheKey(name, method) == name \o ":" \o method

\* what a route file exports: GET, but for [id].ts, which exports HEAD and
\* POST
Exports(file) == IF file = FileUrl("/[id].ts") THEN {"HEAD", "POST"} ELSE {"GET"}

\* a handler: the file it comes from and whether it is the HEAD wrapper
HandlerOf(file, method) == [file |-> file, head |-> (method = "HEAD")]
NoHandler == [file |-> Null, head |-> FALSE]

\* the function getHandler caches, lines 343-352: the import fails when the
\* file is not among those that can be imported; HEAD takes the GET export
LoadHandlerOwnExport(files, file, method) ==
  IF file \notin files THEN NoHandler
  ELSE IF method \notin Exports(file) THEN NoHandler
  ELSE HandlerOf(file, method)
LoadHandlerAnyExport(files, file, method) ==
  IF file \notin files THEN NoHandler
  ELSE HandlerOf(file, method)
LoadHandler(files, file, method) ==
  IF file \notin files THEN NoHandler
  ELSE IF (IF method = "HEAD" THEN "GET" ELSE method) \notin Exports(file) THEN NoHandler
  ELSE HandlerOf(file, method)

\* responses: of a route handler, of the static collaborator, a standard
\* response, a redirect, or the rejection of the promise handler returns
Response(kind, status, target, params) ==
  [kind |-> kind, status |-> status, target |-> target, params |-> params]
StandardResponse(status) == Response("standard", status, Null, EmptyParams)
HandlerResponse(h, params) == Response(IF h.head THEN "head" ELSE "handler", 200, h.file, params)
StaticResponse == Response("static", 0, Null, EmptyParams)
RedirectResponse(location) == Response("redirect", 301, location, EmptyParams)
Rejected == Response("rejected", 0, Null, EmptyParams)
RejectedURIError == Response("rejected", 0, "URIError", EmptyParams)
RejectedTypeError == Response("rejected", 0, "TypeError", EmptyParams)

\* handler, lines 380-382: the static collaborator when one is configured,
\* 404 otherwise
FallbackAlways404(static) == StandardResponse(404)
Fallback(static) == IF static THEN StaticResponse ELSE StandardResponse(404)
NoResponse == Response("none", 0, Null, EmptyParams)

(***************************************************************************)
(* The router: createRouter's closure (root, lookupCache, handlerCache),   *)
(* createTree, getHandler and handler, run as interleaved tasks.  A task   *)
(* runs from one await to the next without interruption; the files on disk *)
(* change under the router's feet.                                         *)
(***************************************************************************)

\* the route files that can be on disk, and those on disk at startup
RouterFiles == {"/a.ts", "/[id].ts", "/(g)/a.ts"}
InitialDisk == {"/a.ts"}

\* the requests sent: method, URL pathname and URL length (a URL is made
\* long by its query string)
Origin == "http://localhost"
RouterRequests ==
  { [method |-> m, pathname |-> p, length |-> Len(Origin) + Len(p)] :
      m \in {"GET", "OPTIONS"}, p \in {"/api/a"} }
  \cup { [method |-> "GET", pathname |-> "/api/a", length |-> MaxUrlLength + 1],
         [method |-> "GET", pathname |-> "/api/a", length |-> MaxUrlLength],
         [method |-> "GET", pathname |-> "/api//a", length |-> Len(Origin) + 7],
         [method |-> "GET", pathname |-> "/x//a", length |-> Len(Origin) + 5] }
  \cup { [method |-> m, pathname |-> p, length |-> Len(Origin) + Len(p)] :
           m \in {"HEAD", "POST"}, p \in {"/api/a"} }
  \cup { [method |-> m, pathname |-> p, length |-> Len(Origin) + Len(p)] :
           m \in {"GET"}, p \in {"/api/", "/apia", "/api/%"} }
  \cup { [method |-> "HEAD", pathname |-> "/api/b", length |-> Len(Origin) + 6] }
  \cup { [method |-> m, pathname |-> "/api/%", length |-> MaxUrlLength + 1] :
           m \in {"GET", "OPTIONS"} }

\* most requests in flight at once, and most createTree calls (the one of
\* createRouter included)
MaxRequests == 1
MaxTrees == 3

\* most handler calls made
MaxHandled == 2

\* most changes made to the files on disk
MaxDiskChanges == 1

VARIABLES
  disk,          \* the route files under fsRoot
  nChanges,      \* the number of changes made to disk
  statik,        \* whether a static collaborator is configured
  heap,          \* the tries made by new UrlNode() in createTree, in order
  root,          \* the number of the trie the variable root refers to
  build,         \* the createTree calls, build[k] being the one that made trie k
  lookupCache,
  handlerCache,
  loaded,        \* the route files imported so far: the runtime's module cache
  req,           \* the handler calls, by slot
  nHandled       \* the number of handler calls made

varsRouter ==
  <<disk, nChanges, statik, heap, root, build, lookupCache, handlerCache, loaded, req,
    nHandled>>

\* a getHandler call in flight: none, a cache hit whose value is about to be
\* delivered (ready), or an import whose result is about to be stored (load)
NoPending ==
  [kind |-> "none", key |-> Null, val |-> NoHandler, made |-> 0, settledAtHit |-> 0]

IdleRequest ==
  [pc |-> "idle", method |-> Null, pathname |-> Null, length |-> 0, path |-> Null,
   trie |-> 0, m |-> Return(<<>>, NoMatch), pending |-> NoPending,
   result |-> NoMatch, resp |-> NoResponse,
   \* what the run of the request was, for the claims:
   clean |-> FALSE,        \* its lookup began while no createTree call was running
   snap |-> EmptyTrie,     \* the trie its lookup began on, as it was then
   rejected |-> {},        \* the targets validate rejected
   hitMade |-> 0,          \* the trie number on the lookup-cache entry it hit
   settledAtHit |-> 0,     \* the newest trie whose createTree had returned then
   quietMiss |-> FALSE,    \* it began on the trie of an undisturbed createTree call
                           \* that had returned, and that trie has no route for it
   afterDrop |-> FALSE]    \* that call's clear() dropped a cached match for its key

\* a createTree call that is running
Walking(k) == build[k].pc = "walk"
Building == \E k \in 1..Len(build) : Walking(k)

\* a handler call that has not returned
InFlight(r) == req[r].pc \notin {"idle", "done"}

\* the newest trie whose createTree call has returned
LastSettled ==
  LET ks == { k \in 1..Len(build) : build[k].pc = "done" } IN
  CHOOSE k \in ks : \A j \in ks : j <= k

\* the trie of a set of files whose inserts all return
RECURSIVE InsertAll(_, _)
InsertAll(T, files) ==
  IF files = {} THEN T
  ELSE LET f == CHOOSE x \in files : TRUE IN
       InsertAll(Insert(T, RoutePath(f), FileUrl(f)).trie, files \ {f})

InitRouter ==
  /\ disk = InitialDisk
  /\ nChanges = 0
  /\ statik \in BOOLEAN
  /\ heap = <<InsertAll(EmptyTrie, InitialDisk)>>
  /\ root = 1
  /\ build = <<[pc |-> "done", seen |-> {}, before |-> 0, into |-> {1},
                quiet |-> TRUE, dropped |-> {}]>>
  /\ lookupCache = <<>>
  /\ handlerCache = <<>>
  /\ loaded = {}
  /\ req = [r \in 1..MaxRequests |-> IdleRequest]
  /\ nHandled = 0

\* a file is created under fsRoot, or removed
AddFile(f) ==
  /\ f \notin disk
  /\ nChanges < MaxDiskChanges
  /\ nChanges' = nChanges + 1
  /\ disk' = disk \cup {f}
  /\ UNCHANGED <<statik, heap, root, build, lookupCache, handlerCache, loaded, req, nHandled>>

RemoveFile(f) ==
  /\ f \in disk
  /\ nChanges < MaxDiskChanges
  /\ nChanges' = nChanges + 1
  /\ disk' = disk \ {f}
  /\ UNCHANGED <<statik, heap, root, build, lookupCache, handlerCache, loaded, req, nHandled>>

\* root = new UrlNode(): one more trie
NewRootInPlace(h) == [h EXCEPT ![Len(h)] = EmptyTrie]
NewRoot(h) == Append(h, EmptyTrie)

\* createTree, lines 305-310, up to the first await of the walk

CreateTreeStart ==
  /\ Len(heap) < MaxTrees
  /\ lookupCache' = CacheClear(lookupCache)
  /\ handlerCache' = CacheClear(handlerCache)
  /\ heap' = NewRoot(heap)
  /\ root' = Len(heap')
  /\ build' = Append(build, [pc |-> "walk", seen |-> {}, before |-> root, into |-> {},
                             quiet |-> \A r \in 1..MaxRequests : ~InFlight(r),
                             dropped |-> { lookupCache[i].key : i \in
                                             { j \in 1..Len(lookupCache) :
                                                 lookupCache[j].val # NoMatch } }])
  /\ UNCHANGED <<disk, nChanges, statik, loaded, req, nHandled>>

\* createTree, lines 310-315: the walk yields the file f, which is inserted
\* into the trie root refers to now; a throw of insert ends the call
CreateTreeStep(k, f) ==
  /\ Walking(k)
  /\ f \in disk \ build[k].seen
  /\ IF ~ShouldProcessFile(f)
     THEN /\ build' = [build EXCEPT ![k].seen = @ \cup {f}]
          /\ heap' = heap
     ELSE LET r == Insert(heap[root], RoutePath(f), FileUrl(f)) IN
          /\ heap' = [heap EXCEPT ![root] = r.trie]
          /\ build' = [build EXCEPT ![k].seen = IF r.err = ErrNone THEN @ \cup {f} ELSE {},
                                    ![k].into = @ \cup {root},
                                    ![k].pc = IF r.err = ErrNone THEN "walk" ELSE "failed"]
  /\ UNCHANGED <<disk, nChanges, statik, root, lookupCache, handlerCache, loaded, req, nHandled>>

\* createTree: the walk is over and the call returns
CreateTreeEnd(k) ==
  /\ Walking(k)
  /\ disk \ build[k].seen = {}
  /\ build' = [build EXCEPT ![k].pc = "done", ![k].seen = {}]
  /\ UNCHANGED <<disk, nChanges, statik, heap, root, lookupCache, handlerCache, loaded, req, nHandled>>

\* the files import() resolves: those on disk and those imported before,
\* which the runtime keeps
Importable == { FileUrl(f) : f \in disk } \cup loaded

\* getHandler(file, method) up to its await: handlerCache.use finds the key
\* (and refreshes it) or calls the import
GetHandler(cache, file, method) ==
  LET key == CacheKey(file, method)
      i == IndexOf(cache, key)
  IN IF i # 0
     THEN [cache |-> CacheTouch(cache, key),
           pending |-> [kind |-> "ready", key |-> key, val |-> cache[i].val,
                        made |-> cache[i].made, settledAtHit |-> LastSettled],
           imported |-> {}]
     ELSE [cache |-> cache,
           pending |-> [kind |-> "load", key |-> key,
                        val |-> LoadHandler(Importable, file, method), made |-> root,
                        settledAtHit |-> 0],
           imported |-> {file} \cap Importable]

\* the end of a getHandler call: handlerCache.use stores what the import gave
HandlerStored(cache, pending) ==
  IF pending.kind = "load"
  THEN CacheSet(cache, CacheMax, pending.key, pending.val, pending.made)
  ELSE cache

\* a lookup machine after a step: when it awaits validate, the getHandler
\* call validate makes has been made
Validating(cache, m, method) ==
  IF m.wait = "validate" THEN GetHandler(cache, m.data, method)
  ELSE [cache |-> cache, pending |-> NoPending, imported |-> {}]

\* no route of the trie T matches urlPath, whatever validate answers
NoRouteFor(T, urlPath) == Lookup(T, urlPath, [d \in Targets(T) |-> TRUE]).result = NoMatch

\* lines 357-358: the status the request q is turned away with, 0 for none
PrecheckLengthFirst(q) ==
  IF UrlTooLong(q) THEN 414
  ELSE IF q.method \notin SupportedMethods THEN 405
  ELSE 0
Precheck(q) ==
  IF q.method \notin SupportedMethods THEN 405
  ELSE IF UrlTooLong(q) THEN 414
  ELSE 0

\* handler, lines 357-375, up to its first await
HandlerStart(r, q) ==
  LET normalizedPath == PosixNormalize(DecodeURI(q.pathname))
      path == StripUrlRoot(normalizedPath)
      key == CacheKey(path, q.method)
      i == IndexOf(lookupCache, key)
      m == LookupStart(heap[root], path)
      v == Validating(handlerCache, m, q.method)
      base == [IdleRequest EXCEPT
                 !.method = q.method, !.pathname = q.pathname, !.length = q.length,
                 !.path = path,
                 !.quietMiss = /\ ~Building /\ build[root].pc = "done" /\ build[root].quiet
                               /\ NoRouteFor(heap[root], path),
                 !.afterDrop = key \in build[root].dropped]
      finish(resp) == [IdleRequest EXCEPT
                         !.pc = "done", !.resp = resp, !.method = q.method,
                         !.pathname = q.pathname, !.length = q.length]
  IN
  /\ ~InFlight(r)
  /\ nHandled < MaxHandled
  /\ nHandled' = nHandled + 1
  /\ build' = [k \in 1..Len(build) |->
                 IF Walking(k) THEN [build[k] EXCEPT !.quiet = FALSE] ELSE build[k]]
  /\ IF Precheck(q) # 0 THEN
       /\ req' = [req EXCEPT ![r] = finish(StandardResponse(Precheck(q)))]
       /\ UNCHANGED <<lookupCache, handlerCache, loaded>>
     ELSE IF Malformed(q.pathname) THEN
       /\ req' = [req EXCEPT ![r] = finish(RejectedURIError)]
       /\ UNCHANGED <<lookupCache, handlerCache, loaded>>
     ELSE IF ~UrlRootMatches(normalizedPath) THEN
       /\ req' = [req EXCEPT ![r] =
                    finish(Fallback(statik))]
       /\ UNCHANGED <<lookupCache, handlerCache, loaded>>
     ELSE IF normalizedPath # DecodeURI(q.pathname) THEN
       /\ req' = [req EXCEPT ![r] = finish(RedirectResponse(SetPathname(normalizedPath)))]
       /\ UNCHANGED <<lookupCache, handlerCache, loaded>>
     ELSE IF i # 0 THEN
       /\ lookupCache' = CacheTouch(lookupCache, key)
       /\ req' = [req EXCEPT ![r] =
                    [base EXCEPT !.pc = "resolved", !.result = lookupCache[i].val,
                                 !.hitMade = lookupCache[i].made,
                                 !.settledAtHit = LastSettled]]
       /\ UNCHANGED <<handlerCache, loaded>>
     ELSE
       /\ req' = [req EXCEPT ![r] =
                    [base EXCEPT !.pc = "lookup", !.trie = root, !.m = m,
                                 !.pending = v.pending,
                                 !.clean = ~Building, !.snap = heap[root]]]
       /\ handlerCache' = v.cache
       /\ loaded' = loaded \cup v.imported
       /\ UNCHANGED lookupCache
  /\ UNCHANGED <<disk, nChanges, statik, heap, root>>

\* a suspended #lookup call resumes: with the answer of validate (the
\* getHandler call ends first) or with what the call it awaited returned
LookupStep(r) ==
  LET q == req[r]
      stored == HandlerStored(handlerCache, q.pending)
      ok == q.pending.val # NoHandler
      m == Resume(heap[q.trie], FilterBoolean(Split(q.path)), q.m, ok)
      v == Validating(stored, m, q.method)
  IN
  /\ q.pc = "lookup"
  /\ q.m.wait \in {"validate", "return"}
  /\ handlerCache' = v.cache
  /\ loaded' = loaded \cup v.imported
  /\ req' = [req EXCEPT ![r] =
               [q EXCEPT !.m = m, !.pending = v.pending,
                         !.rejected = IF q.m.wait = "validate" /\ ~ok
                                      THEN @ \cup {q.m.data} ELSE @]]
  /\ UNCHANGED <<disk, nChanges, statik, heap, root, build, lookupCache, nHandled>>

\* a request answered with resp: only the answer and what the claims ask
\* of a finished request are kept
Done(q, resp) ==
  [IdleRequest EXCEPT !.pc = "done", !.resp = resp, !.method = q.method,
                      !.pathname = q.pathname, !.length = q.length, !.path = q.path,
                      !.quietMiss = q.quietMiss, !.afterDrop = q.afterDrop]

\* a request whose lookup is over: the lookup's record is dropped
Settled(q) ==
  [q EXCEPT !.trie = 0, !.m = IdleRequest.m, !.pending = NoPending,
            !.clean = FALSE, !.snap = EmptyTrie, !.rejected = {}]

\* lookupCache.use, lines 75-78: the lookup is settled and its result
\* stored; a lookup that threw rejects the handler call
LookupSettle(r) ==
  LET q == req[r] IN
  /\ q.pc = "lookup"
  /\ q.m.wait \in {"done", "throw"}
  /\ IF q.m.wait = "throw"
     THEN /\ req' = [req EXCEPT ![r] = Done(q, Rejected)]
          /\ UNCHANGED lookupCache
     ELSE /\ lookupCache' = CacheSet(lookupCache, CacheMax, CacheKey(q.path, q.method),
                                     q.m.result, q.trie)
          /\ req' = [req EXCEPT ![r] = [Settled(q) EXCEPT !.pc = "resolved",
                                                         !.result = q.m.result]]
  /\ UNCHANGED <<disk, nChanges, statik, heap, root, build, handlerCache, loaded, nHandled>>

\* handler, lines 377-382: with a match getHandler is called for its
\* target, without one the static collaborator or 404 answers
Dispatch(r) ==
  LET q == req[r]
      g == GetHandler(handlerCache, q.result.match, q.method)
  IN
  /\ q.pc = "resolved"
  /\ IF q.result # NoMatch
     THEN /\ handlerCache' = g.cache
          /\ loaded' = loaded \cup g.imported
          /\ req' = [req EXCEPT ![r].pc = "handler", ![r].pending = g.pending,
                                ![r].hitMade = 0, ![r].settledAtHit = 0]
     ELSE /\ req' = [req EXCEPT ![r] =
                         Done(q, Fallback(statik))]
          /\ UNCHANGED <<handlerCache, loaded>>
  /\ UNCHANGED <<disk, nChanges, statik, heap, root, build, lookupCache, nHandled>>

\* handler, line 377: the handler getHandler resolved to is called; calling
\* null throws
Invoke(r) ==
  LET q == req[r] IN
  /\ q.pc = "handler"
  /\ handlerCache' = HandlerStored(handlerCache, q.pending)
  /\ req' = [req EXCEPT ![r] =
               Done(q, IF q.pending.val = NoHandler THEN RejectedTypeError
                       ELSE HandlerResponse(q.pending.val, q.result.params))]
  /\ UNCHANGED <<disk, nChanges, statik, heap, root, build, lookupCache, loaded, nHandled>>

(***************************************************************************)
(* An LRUCache of its own, used by callers that overlap: use(key, fn) runs *)
(* to its await when the key misses and ends with #set when fn settles.    *)
(* The clock counts the touches, touchedAt is the time of the last touch   *)
(* of each key held, an entry's made is the time it was stored and gone is *)
(* the entry evicted last; the code keeps none of these.                   *)
(***************************************************************************)

\* the keys used and the values fn gives; null is a value like any other
CacheKeys == {"a", "b", "c"}
CacheValues == {Null, "v"}

\* new LRUCache(2)
CacheCapacity == 2

\* most use calls awaiting fn at once, and most touches counted
MaxUses == 2
MaxTouches == 6

VARIABLES
  lru,         \* the Map of the cache
  uses,        \* the use calls awaiting fn: the key of each, Null for none
  clock,
  touchedAt,
  gone

varsCache == <<lru, uses, clock, touchedAt, gone>>

\* the keys of the Map
Keys(cache) == { cache[i].key : i \in 1..Len(cache) }

InitCache ==
  /\ lru = <<>>
  /\ uses = [u \in 1..MaxUses |-> Null]
  /\ clock = 0
  /\ touchedAt = <<>>
  /\ gone = [key |-> Null, touched |-> 0]

\* use(key, fn), lines 73-75: #get finds the key, refreshes it and use
\* returns its value, or fn is called and awaited
UseStart(u, key) ==
  /\ uses[u] = Null
  /\ clock < MaxTouches
  /\ IF IndexOf(lru, key) # 0
     THEN /\ lru' = CacheTouch(lru, key)
          /\ clock' = clock + 1
          /\ touchedAt' = [touchedAt EXCEPT ![key] = clock + 1]
          /\ UNCHANGED uses
     ELSE /\ uses' = [uses EXCEPT ![u] = key]
          /\ UNCHANGED <<lru, clock, touchedAt>>
  /\ UNCHANGED gone

\* use, lines 75-78: fn has settled with val, which #set stores
UseFinish(u, val) ==
  LET key == uses[u]
      after == CacheSet(lru, CacheCapacity, key, val, clock + 1)
      out == Keys(lru) \ Keys(after)
  IN
  /\ key # Null
  /\ clock < MaxTouches
  /\ lru' = after
  /\ clock' = clock + 1
  /\ touchedAt' = [k \in Keys(after) |-> IF k = key THEN clock + 1 ELSE touchedAt[k]]
  /\ gone' = IF out = {} THEN gone
             ELSE LET k == CHOOSE x \in out : TRUE IN [key |-> k, touched |-> touchedAt[k]]
  /\ uses' = [uses EXCEPT ![u] = Null]

\* clear()
Clear ==
  /\ lru' = CacheClear(lru)
  /\ touchedAt' = <<>>
  /\ UNCHANGED <<uses, clock, gone>>

(***************************************************************************)
(* The fetch pool of utils.ts: concurrentArrayFetcher, which fx, fx.all    *)
(* and fx.iter all run, the Semaphore of a pool key and the Map pools.  A  *)
(* call runs without interruption until it waits in acquire() or for its   *)
(* tasks; a release() that hands its permit to a waiter lets the waiter    *)
(* run on at once.  A Semaphore's concurrency is the capacity it was made  *)
(* with, which the code does not keep.                                     *)
(***************************************************************************)

PoolKeys == {"todos-api"}
Kinds == {"fx", "fx.all", "fx.iter"}

\* the concurrency option of the calls
Concurrencies == {1, 2}

\* most calls made, and most items of a call
MaxCalls == 2
MaxItems == 2

VARIABLES
  semaphores,    \* the Semaphores made, in order
  pools,         \* the Map pools: the number of each key's Semaphore, 0 for none
  fetchers       \* the concurrentArrayFetcher calls

varsPool == <<semaphores, pools, fetchers>>

\* new Semaphore(capacity)
Semaphore(capacity) ==
  [capacity |-> capacity, queue |-> <<>>, subscribers |-> 0, concurrency |-> capacity]

\* a call not made yet.  pc: idle, acquire (the loop awaits acquire() for
\* the item at), join (the loop is over, the tasks are awaited), closed.
\* task: none, fetch (its fetch is in flight), ok, failed, dropped (runTask
\* returned at line 307), refused (the loop met the deadline at line 332).
\* out: the chunks the stream holds, in order.  completed: the items whose
\* fetch settled, in the order they settled, which the code does not keep
IdleFetcher ==
  [pc |-> "idle", kind |-> Null, key |-> Null, pool |-> 0, items |-> 0, at |-> 0,
   aborted |-> FALSE, task |-> [i \in 1..MaxItems |-> "none"], out |-> <<>>,
   completed |-> <<>>]

\* a result of runTask, and what runTask returns at line 307
Result(source, success) == [source |-> source, success |-> success]
Undefined == [source |-> 0, success |-> FALSE]

\* writer.write(chunk) on the PassThroughStream, lines 233-241: undefined is
\* not passed on
WriteInItemOrder(out, chunk) ==
  IF chunk = Undefined THEN out
  ELSE SelectSeq(out, LAMBDA r : r.source < chunk.source) \o <<chunk>>
         \o SelectSeq(out, LAMBDA r : r.source >= chunk.source)
Write(out, chunk) ==
  IF chunk = Undefined THEN out ELSE Append(out, chunk)

\* fetchAll, lines 284-287: the results read from the stream are split into
\* values and errors; the data of the request i stands as i, and so does
\* its error
FetchAll(out) ==
  LET successes == SelectSeq(out, LAMBDA r : r.success)
      failures == SelectSeq(out, LAMBDA r : ~r.success)
  IN [values |-> [k \in 1..Len(successes) |-> successes[k].source],
      errors |-> [k \in 1..Len(failures) |-> failures[k].source],
      hasErrors |-> failures # <<>>]

\* the Semaphores and the calls, as the steps of a call change them
World(sems, calls) == [semaphores |-> sems, fetchers |-> calls]

\* acquire(), called for the call c
AcquireUnchecked(sem, c) ==
  [sem |-> [sem EXCEPT !.capacity = @ - 1], granted |-> TRUE]
Acquire(sem, c) ==
  IF sem.capacity > 0
  THEN [sem |-> [sem EXCEPT !.capacity = @ - 1], granted |-> TRUE]
  ELSE [sem |-> [sem EXCEPT !.queue = Append(@, c)], granted |-> FALSE]

RECURSIVE Loop(_, _, _)

\* runTask(source) up to its await, lines 306-309, after which the loop of
\* its call goes on
RunTask(W, c, i) ==
  Loop(IF W.fetchers[c].aborted
       THEN [W EXCEPT !.fetchers[c].task[i] = "dropped",
                      !.fetchers[c].out = Write(@, Undefined)]
       ELSE [W EXCEPT !.fetchers[c].task[i] = "fetch"],
       c, i + 1)

\* the for loop of the call c from its item i on, lines 331-344, run until
\* it waits in acquire() or ends
Loop(W, c, i) ==
  LET f == W.fetchers[c]
      a == Acquire(W.semaphores[f.pool], c)
  IN
  IF i > f.items
  THEN [W EXCEPT !.fetchers[c].pc = "join", !.fetchers[c].at = 0]
  ELSE IF f.aborted
  THEN [W EXCEPT !.fetchers[c].pc = "join", !.fetchers[c].at = 0,
                 !.fetchers[c].task[i] = "refused",
                 !.fetchers[c].out = Write(@, Result(i, FALSE))]
  ELSE IF a.granted
  THEN RunTask([W EXCEPT !.semaphores[f.pool] = a.sem], c, i)
  ELSE [W EXCEPT !.semaphores[f.pool] = a.sem,
                 !.fetchers[c].pc = "acquire", !.fetchers[c].at = i]

\* release(): the first waiter resumes with the permit, or the capacity
\* grows
Release(W, p) ==
  LET sem == W.semaphores[p] IN
  IF sem.queue # <<>>
  THEN RunTask([W EXCEPT !.semaphores[p].queue = Tail(@)], Head(sem.queue),
               W.fetchers[Head(sem.queue)].at)
  ELSE [W EXCEPT !.semaphores[p].capacity = @ + 1]

InitPool ==
  /\ semaphores = <<>>
  /\ pools = [key \in PoolKeys |-> 0]
  /\ fetchers = [c \in 1..MaxCalls |-> IdleFetcher]

\* concurrentArrayFetcher(items, toRequest, { key, concurrency }): the pool
\* is found or made, and the loop runs until it first waits; fx passes one
\* item
ConcurrentArrayFetcher(c, kind, key, n, concurrency) ==
  LET made == pools[key] = 0
      sems == IF made THEN Append(semaphores, Semaphore(concurrency)) ELSE semaphores
      p == IF made THEN Len(sems) ELSE pools[key]
      W == Loop(World([sems EXCEPT ![p].subscribers = @ + 1],
                      [fetchers EXCEPT ![c] =
                         [IdleFetcher EXCEPT !.pc = "acquire", !.kind = kind, !.key = key,
                                             !.pool = p, !.items = n]]),
                c, 1)
  IN
  /\ fetchers[c].pc = "idle"
  /\ \A b \in 1..(c - 1) : fetchers[b].pc # "idle"
  /\ kind = "fx" => n = 1
  /\ semaphores' = W.semaphores
  /\ fetchers' = W.fetchers
  /\ pools' = [pools EXCEPT ![key] = p]

\* the fetch of the item i of the call c settles: runTask returns its
\* result, which is written to the stream, and releases the permit; once
\* the deadline has fired a fetch fails
FetchSettles(c, i, ok) ==
  LET W == Release(World(semaphores,
                         [fetchers EXCEPT ![c].task[i] = IF ok THEN "ok" ELSE "failed",
                                          ![c].out = Write(@, Result(i, ok)),
                                          ![c].completed = Append(@, i)]),
                   fetchers[c].pool)
  IN
  /\ fetchers[c].task[i] = "fetch"
  /\ fetchers[c].aborted => ~ok
  /\ semaphores' = W.semaphores
  /\ fetchers' = W.fetchers
  /\ UNCHANGED pools

\* the deadline of the call c fires: its signal is aborted
DeadlineFires(c) ==
  /\ fetchers[c].pc \in {"acquire", "join"}
  /\ ~fetchers[c].aborted
  /\ fetchers' = [fetchers EXCEPT ![c].aborted = TRUE]
  /\ UNCHANGED <<semaphores, pools>>

\* lines 346-348: the tasks of the call c are over; the stream is closed
\* and the pool loses a subscriber, and its key when that was the last
Close(c) ==
  LET p == fetchers[c].pool
      left == semaphores[p].subscribers - 1
  IN
  /\ fetchers[c].pc = "join"
  /\ \A i \in 1..MaxItems : fetchers[c].task[i] # "fetch"
  /\ semaphores' = [semaphores EXCEPT ![p].subscribers = left]
  /\ pools' = IF left = 0 THEN [pools EXCEPT ![fetchers[c].key] = 0] ELSE pools
  /\ fetchers' = [fetchers EXCEPT ![c].pc = "closed"]

(***************************************************************************)
(* _fetch of utils.ts: the attempts made for one request.  An attempt      *)
(* settles with a response that is ok or with an error; the parent signal  *)
(* is the deadline signal of the call.  made counts the fetch calls and    *)
(* settled lists what they settled with, neither of which the code keeps.  *)
(***************************************************************************)

\* line 273
IdempotentMethods == {"GET", "HEAD", "PUT", "DELETE", "OPTIONS", "TRACE"}

\* line 274
TransientStatusCodes == {408, 429, 500, 502, 503, 504}

\* line 296: maxAttempts = 5 when the option is not given
DefaultMaxAttempts == 5

\* the methods of the requests, and the most attempts asked for by option
FetchMethods == {"GET", "POST"}
MaxAttempts == 3

\* what an attempt settles with: the response that is ok, a FetchError for
\* a response that is not (with its status and what its Retry-After header
\* asks for: none, now for a wait that is not positive, later for a wait
\* within maxRetryAfter, never for one that is invalid or too long), the
\* TimeoutError of the request's timeout, and the reason of the parent
\* signal
Ok == [name |-> "ok", status |-> 200, retryAfter |-> "none"]
FetchError(status, retryAfter) ==
  [name |-> "FetchError", status |-> status, retryAfter |-> retryAfter]
RequestTimeout == [name |-> "TimeoutError", status |-> 0, retryAfter |-> "none"]
DeadlineExceeded == [name |-> "DeadlineError", status |-> 0, retryAfter |-> "none"]
NoError == [name |-> "undefined", status |-> 0, retryAfter |-> "none"]
Outcomes ==
  { Ok, RequestTimeout, FetchError(404, "none"), FetchError(404, "never") }
  \cup { FetchError(503, h) : h \in {"none", "now", "later", "never"} }

VARIABLES
  fetchRun       \* the _fetch call

varsFetch == <<fetchRun>>

\* pc: idle, fetch (an attempt is in flight), delay (line 392), returned,
\* thrown.  maxAttempts is the variable of the code, counted down
IdleRun ==
  [pc |-> "idle", method |-> Null, budget |-> 0, maxAttempts |-> 0, aborted |-> FALSE,
   lastError |-> NoError, made |-> 0, settled |-> <<>>, error |-> NoError]

InitFetch == fetchRun = IdleRun

\* line 359: the attempts a request of the method may take
BudgetAnyMethod(method, maxAttempts) == maxAttempts
Budget(method, maxAttempts) ==
  IF method \notin IdempotentMethods THEN 1 ELSE maxAttempts

\* line 398
Throw(run) == [run EXCEPT !.pc = "thrown", !.error = run.lastError]

\* line 364: the test of the while loop, then the next fetch or the throw
NextAttempt(run) ==
  IF run.maxAttempts > 0
  THEN [run EXCEPT !.pc = "fetch", !.maxAttempts = @ - 1, !.made = @ + 1]
  ELSE Throw([run EXCEPT !.maxAttempts = @ - 1])

\* runTask calls _fetch(toRequest(source), { maxAttempts, timeout }, signal),
\* line 309, with the option (<<n>>) or, when it is not given (<<>>), its
\* default
FetchCall(method, option) ==
  LET maxAttempts == IF option = <<>> THEN DefaultMaxAttempts ELSE option[1] IN
  /\ fetchRun.pc = "idle"
  /\ fetchRun' = NextAttempt([IdleRun EXCEPT !.method = method, !.budget = maxAttempts,
                                             !.maxAttempts = Budget(method, maxAttempts)])

\* the attempt in flight settles, lines 366-394; once the parent signal is
\* aborted the fetch rejects with its reason
AttemptSettles(outcome) ==
  LET run == [fetchRun EXCEPT !.settled = Append(@, outcome)]
      failed == [run EXCEPT !.lastError = outcome]
  IN
  /\ fetchRun.pc = "fetch"
  /\ IF fetchRun.aborted THEN outcome = DeadlineExceeded ELSE outcome \in Outcomes
  /\ fetchRun' =
       IF outcome = Ok THEN [run EXCEPT !.pc = "returned"]
       ELSE IF failed.maxAttempts <= 0 \/ failed.aborted THEN Throw(failed)
       ELSE IF outcome.name = "FetchError" /\ outcome.status \in TransientStatusCodes
               /\ outcome.retryAfter # "none"
       THEN (IF outcome.retryAfter = "never" THEN Throw(failed)
             ELSE IF outcome.retryAfter = "later" THEN [failed EXCEPT !.pc = "delay"]
             ELSE NextAttempt(failed))
       ELSE NextAttempt(failed)

\* line 392: the wait is over
DelayEnds ==
  /\ fetchRun.pc = "delay"
  /\ ~fetchRun.aborted
  /\ fetchRun' = NextAttempt(fetchRun)

\* the deadline fires: the parent signal is aborted; a delay rejects with
\* its reason, which leaves _fetch from inside the catch block
ParentAborts ==
  /\ fetchRun.pc \in {"fetch", "delay"}
  /\ ~fetchRun.aborted
  /\ fetchRun' =
       IF fetchRun.pc = "delay"
       THEN [fetchRun EXCEPT !.aborted = TRUE, !.pc = "thrown", !.error = DeadlineExceeded]
       ELSE [fetchRun EXCEPT !.aborted = TRUE]

(***************************************************************************)
(* The specifications                                                      *)
(***************************************************************************)

vars == <<varsTrie, varsRouter, varsCache, varsPool, varsFetch>>

\* what the steps of the router, of the trie under test, of the cache under
\* test, of the pool and of _fetch leave alone
offRouter == <<varsTrie, varsCache, varsPool, varsFetch>>
offTrie == <<varsRouter, varsCache, varsPool, varsFetch>>
offCache == <<varsTrie, varsRouter, varsPool, varsFetch>>
offPool == <<varsTrie, varsRouter, varsCache, varsFetch>>
offFetch == <<varsTrie, varsRouter, varsCache, varsPool>>

NextRouter ==
  \/ \E f \in RouterFiles : AddFile(f) /\ UNCHANGED offRouter
  \/ \E f \in RouterFiles : RemoveFile(f) /\ UNCHANGED offRouter
  \/ CreateTreeStart /\ UNCHANGED offRouter
  \/ \E k \in 1..Len(build) : \E f \in RouterFiles :
       CreateTreeStep(k, f) /\ UNCHANGED offRouter
  \/ \E k \in 1..Len(build) : CreateTreeEnd(k) /\ UNCHANGED offRouter
  \/ \E r \in 1..MaxRequests : \E q \in RouterRequests :
       HandlerStart(r, q) /\ UNCHANGED offRouter
  \/ \E r \in 1..MaxRequests : LookupStep(r) /\ UNCHANGED offRouter
  \/ \E r \in 1..MaxRequests : LookupSettle(r) /\ UNCHANGED offRouter
  \/ \E r \in 1..MaxRequests : Dispatch(r) /\ UNCHANGED offRouter
  \/ \E r \in 1..MaxRequests : Invoke(r) /\ UNCHANGED offRouter

NextTrie ==
  \/ \E f \in TrieFiles : TInsert(f) /\ UNCHANGED offTrie
  \/ \E urlPath \in TriePaths : \E invalid \in SUBSET Targets(tree) :
       TLookup(urlPath, invalid) /\ UNCHANGED offTrie

NextNested ==
  \/ \E f \in NestedFiles : TInsert(f) /\ UNCHANGED offTrie
  \/ \E urlPath \in NestedPaths : \E invalid \in SUBSET Targets(tree) :
       TLookup(urlPath, invalid) /\ UNCHANGED offTrie

NextCache ==
  \/ \E u \in 1..MaxUses : \E key \in CacheKeys : UseStart(u, key) /\ UNCHANGED offCache
  \/ \E u \in 1..MaxUses : \E val \in CacheValues : UseFinish(u, val) /\ UNCHANGED offCache
  \/ Clear /\ UNCHANGED offCache

NextPool ==
  \/ \E c \in 1..MaxCalls : \E kind \in Kinds : \E key \in PoolKeys :
       \E n \in 1..MaxItems : \E concurrency \in Concurrencies :
         ConcurrentArrayFetcher(c, kind, key, n, concurrency) /\ UNCHANGED offPool
  \/ \E c \in 1..MaxCalls : \E i \in 1..MaxItems : \E ok \in BOOLEAN :
       FetchSettles(c, i, ok) /\ UNCHANGED offPool
  \/ \E c \in 1..MaxCalls : DeadlineFires(c) /\ UNCHANGED offPool
  \/ \E c \in 1..MaxCalls : Close(c) /\ UNCHANGED offPool

\* createRouter has returned; nothing is inserted into the trie under test
Init == InitRouter /\ InitTrie /\ InitCache /\ InitPool /\ InitFetch

\* the process was started in fsRoot
InitInFsRoot == Init /\ cwd = FsRoot

\* the router, with the trie under test left alone
SpecRouter == InitInFsRoot /\ [][NextRouter]_vars

\* createRouter({ fsRoot }) without the static option
InitStatic == InitInFsRoot /\ ~statik

\* the trie under test, with the router left as createRouter returned it
SpecTrie == InitStatic /\ [][NextTrie]_vars

\* the process was started in any directory
InitAnyCwd == Init /\ ~statik

\* the trie under test and the messages of its errors
SpecCwd == InitAnyCwd /\ [][NextTrie]_vars

\* the trie under test, with routes that nest
SpecNested == InitStatic /\ [][NextNested]_vars

NextFetch ==
  \/ \E method \in FetchMethods : \E option \in {<<>>} \cup { <<n>> : n \in 1..MaxAttempts } :
       FetchCall(method, option) /\ UNCHANGED offFetch
  \/ \E outcome \in Outcomes \cup {DeadlineExceeded} :
       AttemptSettles(outcome) /\ UNCHANGED offFetch
  \/ DelayEnds /\ UNCHANGED offFetch
  \/ ParentAborts /\ UNCHANGED offFetch

\* the fetches settle and the calls run on
Settling ==
  \E c \in 1..MaxCalls : \E i \in 1..MaxItems : \E ok \in BOOLEAN :
    FetchSettles(c, i, ok) /\ UNCHANGED offPool
Closing == \E c \in 1..MaxCalls : Close(c) /\ UNCHANGED offPool

\* the cache under test
SpecCache == InitStatic /\ [][NextCache]_vars

\* the fetch pool
SpecPool == InitStatic /\ [][NextPool]_vars

\* the attempts of one request
SpecFetch == InitStatic /\ [][NextFetch]_vars

\* the fetch pool, where every fetch settles (each attempt has its timeout)
\* and a call whose tasks are over closes its stream
SpecPoolFair == SpecPool /\ WF_vars(Settling) /\ WF_vars(Closing)

(***************************************************************************)
(* Claims about the router, checked under SpecRouter                       *)
(***************************************************************************)

Slots == 1..MaxRequests
Builds == 1..Len(build)

\* the files a running createTree call has yet to insert
Outstanding(k) == { f \in disk \ build[k].seen : ShouldProcessFile(f) }

\* the trie t is the root a running createTree call is still filling
PartlyBuilt(t) == t = root /\ \E k \in Builds : Walking(k) /\ Outstanding(k) # {}

\* C1: no request resolves its path against a trie that holds only some of
\* the files of a rebuild in progress.
C1_NeverPartialTrie ==
  \A r \in Slots : req[r].pc = "lookup" => ~PartlyBuilt(req[r].trie)

\* C2: once a createTree call has returned, no request is answered from a
\* lookup-cache or handler-cache entry whose value was computed while an
\* older trie was the root.
C2_NoStaleEntryServed ==
  \A r \in Slots :
    /\ (req[r].pc = "resolved" /\ req[r].hitMade # 0) =>
         req[r].hitMade >= req[r].settledAtHit
    /\ req[r].pending.kind = "ready" =>
         req[r].pending.made >= req[r].pending.settledAtHit

\* the paths the requests of the model look up
RouterPaths ==
  { StripUrlRoot(PosixNormalize(DecodeURI(q.pathname))) : q \in RouterRequests }

\* what urlPath resolves to on the trie T when every target is accepted
Resolves(T, urlPath) == Lookup(T, urlPath, [d \in Targets(T) |-> TRUE]).result

\* C3: after a createTree call that failed on a route conflict, every path
\* that resolved on the trie that was the root before the call resolves to
\* the same target and params.
C3_FailedReloadKeepsTrie ==
  \A k \in Builds :
    (build[k].pc = "failed" /\ root = k /\ build[build[k].before].pc = "done") =>
      \A urlPath \in RouterPaths :
        Resolves(heap[build[k].before], urlPath) # NoMatch =>
          Resolves(heap[root], urlPath) = Resolves(heap[build[k].before], urlPath)

\* C4: the inserts of a createTree call land only in the trie that call made.
C4_InsertsStayInOwnTrie ==
  \A k \in Builds : build[k].into \subseteq {k}

\* C5: a request that begins after an undisturbed rebuild has returned, for a
\* path the rebuilt trie has no route for (its file removed), is answered
\* 404 when no static collaborator is configured, also when a match for the
\* same path and method had been cached before the rebuild.
C5_RemovedRoute404 ==
  \A r \in Slots :
    (req[r].pc = "done" /\ req[r].quietMiss /\ ~statik) =>
      req[r].resp = StandardResponse(404)

\* C5 witness: such a request was answered 404 after the rebuild's clear()
\* had dropped a cached match for its path and method
C5_Witness ==
  \E r \in Slots :
    /\ req[r].pc = "done" /\ req[r].quietMiss /\ req[r].afterDrop /\ ~statik
    /\ req[r].resp = StandardResponse(404)

\* C6: a lookup that began while no rebuild was running keeps its trie: the
\* trie it began on is not changed while it is in flight, whatever rebuilds
\* start or end meanwhile, and what it settles to is what that trie gives
\* for the answers validate gave.
C6_LookupKeepsSnapshot ==
  \A r \in Slots :
    (req[r].pc = "lookup" /\ req[r].clean) =>
      /\ heap[req[r].trie] = req[r].snap
      /\ req[r].m.wait \in {"done", "throw"} =>
           req[r].m =
             Lookup(req[r].snap, req[r].path,
                    [d \in Targets(req[r].snap) |-> d \notin req[r].rejected])

\* C6 witness: a lookup that began before a rebuild settled on a match after
\* the rebuild had replaced the root
C6_Witness ==
  \E r \in Slots :
    /\ req[r].pc = "lookup" /\ req[r].clean /\ req[r].trie # root
    /\ build[root].pc = "done"
    /\ req[r].m.wait = "done" /\ req[r].m.result # NoMatch

\* a handler call begins in slot r
Begins(r) == ~InFlight(r) /\ req'[r] # req[r]

\* C18: a request whose method is outside {GET, HEAD, POST, PUT, DELETE,
\* PATCH} is answered with the standard 405 response in the step that
\* receives it, which leaves the tries, root, both caches and the files as
\* they are.
C18_UnsupportedMethod405 ==
  [][\A r \in Slots :
       (Begins(r) /\ req'[r].method \notin {"GET", "HEAD", "POST", "PUT", "DELETE", "PATCH"}) =>
         /\ req'[r].pc = "done"
         /\ req'[r].resp = [kind |-> "standard", status |-> 405, target |-> Null,
                            params |-> EmptyParams]
         /\ UNCHANGED <<disk, statik, heap, root, lookupCache, handlerCache>>]_vars

\* C18 witness: OPTIONS was answered 405 while the lookup cache held an entry
C18_Witness ==
  \E r \in Slots :
    /\ req[r].pc = "done" /\ req[r].method = "OPTIONS"
    /\ req[r].resp.kind = "standard" /\ req[r].resp.status = 405
    /\ lookupCache # <<>>

\* C35: a request with an unsupported method and a URL longer than 8192 is
\* answered 405; a request with either fault is answered 405 or 414 in the
\* step that receives it, before its path is decoded, and that step leaves
\* both caches and the loaded modules as they are.
C35_MethodThenLength ==
  [][\A r \in Slots :
       Begins(r) =>
         \A q \in {req'[r]} :
           LET badMethod == q.method \notin {"GET", "HEAD", "POST", "PUT", "DELETE", "PATCH"}
               tooLong == q.length > 8192
           IN (badMethod \/ tooLong) =>
                /\ q.pc = "done"
                /\ q.resp.kind = "standard"
                /\ q.resp.status = IF badMethod THEN 405 ELSE 414
                /\ UNCHANGED <<lookupCache, handlerCache, loaded>>]_vars

\* C35 witness: OPTIONS with a URL of 8193 characters was answered 405 while
\* the lookup cache held an entry
C35_Witness ==
  \E r \in Slots :
    /\ req[r].pc = "done" /\ req[r].method = "OPTIONS" /\ req[r].length > 8192
    /\ req[r].resp.kind = "standard" /\ req[r].resp.status = 405
    /\ lookupCache # <<>>

\* C19: a request with a supported method and a URL longer than 8192 is
\* answered with the standard 414 response in the step that receives it,
\* which leaves the tries, root and both caches as they are; a URL of length
\* 8192 is never answered 414.
C19_UrlTooLong414 ==
  [][\A r \in Slots :
       (Begins(r) /\ req'[r].method \in {"GET", "HEAD", "POST", "PUT", "DELETE", "PATCH"}) =>
         /\ req'[r].length > 8192 =>
              /\ req'[r].pc = "done"
              /\ req'[r].resp = [kind |-> "standard", status |-> 414, target |-> Null,
                                 params |-> EmptyParams]
              /\ UNCHANGED <<disk, statik, heap, root, lookupCache, handlerCache>>
         /\ req'[r].length = 8192 =>
              /\ req'[r].resp.status # 414
              /\ req'[r].pc # "done"]_vars

\* C19 witness: a URL of 8193 characters on a cached, matching path was
\* answered 414
C19_Witness ==
  \E r \in Slots :
    /\ req[r].pc = "done" /\ req[r].length = 8193 /\ req[r].resp.status = 414
    /\ \E i \in 1..Len(lookupCache) : lookupCache[i].val # NoMatch

\* the requested paths that are not in normal form, with their normal form
NotNormal == ("/api//a" :> "/api/a") @@ ("/x//a" :> "/x/a")

\* C20: an accepted request whose decoded path differs from its normalized
\* form is answered 301 with the normalized location, under the URL root or
\* not, and that location is in normal form.
C20_RedirectWhenNotNormal ==
  \A r \in Slots :
    (req[r].pc = "done" /\ req[r].pathname \in DOMAIN NotNormal
       /\ req[r].method \in {"GET", "HEAD", "POST", "PUT", "DELETE", "PATCH"}
       /\ req[r].length <= 8192) =>
      /\ req[r].resp.kind = "redirect" /\ req[r].resp.status = 301
      /\ req[r].resp.target = NotNormal[req[r].pathname]
      /\ req[r].resp.target \notin DOMAIN NotNormal

\* the methods the dispatcher accepts
Accepted == {"GET", "HEAD", "POST", "PUT", "DELETE", "PATCH"}

\* the standard 404 response, body 'Not Found'
NotFound == [kind |-> "standard", status |-> 404, target |-> Null, params |-> EmptyParams]

\* the answer of the static collaborator
FromStatic == [kind |-> "static", status |-> 0, target |-> Null, params |-> EmptyParams]

\* C21: a request whose lookup gave no match is answered by the static
\* collaborator when one is configured and with the standard 404 otherwise;
\* a request whose lookup gave a match is never answered by either: the
\* call of line 377 is made on the handler of the match's target, and what
\* that handler returns is the answer.
C21_StaticOnlyWithoutMatch ==
  [][\A r \in Slots :
       (req[r].pc \in {"resolved", "handler"} /\ req'[r].pc = "done") =>
         IF req[r].result = NoMatch
         THEN req'[r].resp = IF statik THEN FromStatic ELSE NotFound
         ELSE /\ req'[r].resp.kind \notin {"static", "standard"}
              /\ req'[r].resp.kind \in {"handler", "head"} =>
                   /\ req'[r].resp.target = req[r].result.match
                   /\ req'[r].resp.params = req[r].result.params]_vars

\* C21 witness: with a static collaborator configured, a request under the
\* URL root that no route matched was answered by it
C21_Witness ==
  \E r \in Slots :
    /\ req[r].pc = "done" /\ statik /\ req[r].path # Null
    /\ req[r].resp = FromStatic

\* the target a getHandler call of slot r is made for in the state reached
TargetOf(r) ==
  IF req'[r].pc = "handler" THEN req'[r].result.match ELSE req'[r].m.data

\* a getHandler call of slot r begins an import in this step
Imports(r) == req'[r].pending.kind = "load" /\ req'[r].pending # req[r].pending

\* C22: a HEAD request is served through the GET export: an import made for
\* it gives a handler exactly when the module loads and exports GET,
\* whether or not it exports HEAD; the answer is never a HEAD export's, and
\* an answer of a route is that of a file exporting GET, made by the
\* wrapper that drops the body.
C22_HeadThroughGet ==
  [][\A r \in Slots :
       req'[r].method = "HEAD" =>
         /\ Imports(r) =>
              (req'[r].pending.val # NoHandler <=>
                 (TargetOf(r) \in Importable /\ "GET" \in Exports(TargetOf(r))))
         /\ req'[r].pc = "done" =>
              /\ req'[r].resp.kind # "handler"
              /\ req'[r].resp.kind = "head" =>
                   /\ "GET" \in Exports(req'[r].resp.target)
                   /\ req'[r].resp.status = 200
              /\ req'[r].resp.kind = "standard" => req'[r].resp.status = 404]_vars

\* C22 witness: HEAD /api/b, whose only route [id].ts exports HEAD and no
\* GET, was answered 404
C22_Witness ==
  \E r \in Slots :
    /\ req[r].pc = "done" /\ req[r].method = "HEAD" /\ req[r].pathname = "/api/b"
    /\ FileUrl("/[id].ts") \in Targets(heap[root])
    /\ req[r].resp = NotFound

\* the export a request of the method is served by
ExportFor(method) == IF method = "HEAD" THEN "GET" ELSE method

\* C23: a target whose module does not load or lacks the export of the
\* request's method is no handler: validate rejects it without ending the
\* lookup, a settled lookup never returns a rejected target, a lookup left
\* without a match is answered by static or 404, and an answer of a route
\* is that of a file with the export; POST is never answered 405 or 500.
C23_NoHandlerFallsThrough ==
  [][\A r \in Slots :
       /\ Imports(r) =>
            (req'[r].pending.val = NoHandler <=>
               (TargetOf(r) \notin Importable
                  \/ ExportFor(req'[r].method) \notin Exports(TargetOf(r))))
       /\ (req[r].pc = "lookup" /\ req[r].m.wait = "validate"
             /\ req[r].pending.val = NoHandler /\ req'[r] # req[r]) =>
            /\ req'[r].pc = "lookup" /\ req'[r].m.wait # "throw"
            /\ req[r].m.data \in req'[r].rejected
       /\ (req'[r].pc = "lookup" /\ req'[r].m.wait = "done") =>
            req'[r].m.result.match \notin req'[r].rejected
       /\ req'[r].pc = "done" =>
            /\ req'[r].resp.kind \in {"handler", "head"} =>
                 ExportFor(req'[r].method) \in Exports(req'[r].resp.target)
            /\ (req'[r].method = "POST" /\ req'[r].resp.kind = "standard") =>
                 req'[r].resp.status = 404]_vars

\* C23 witness: POST /api/a, whose first route a.ts exports GET only, was
\* answered by the lower-priority route [id].ts
C23_Witness ==
  \E r \in Slots :
    /\ req[r].pc = "done" /\ req[r].method = "POST" /\ req[r].pathname = "/api/a"
    /\ FileUrl("/a.ts") \in Targets(heap[root])
    /\ req[r].resp.kind = "handler" /\ req[r].resp.target = FileUrl("/[id].ts")

\* C24: the promise the dispatch function returns is never rejected, but by
\* the throw of a lookup that met the terminal/optional-catch-all collision.
C24_NeverRejects ==
  \A r \in Slots :
    (req[r].pc = "done" /\ req[r].resp.kind = "rejected") =>
      req[r].resp = [kind |-> "rejected", status |-> 0, target |-> Null,
                     params |-> EmptyParams]

\* what getHandler resolves to for file and method in the current state
HandlerNow(file, method) == GetHandler(handlerCache, file, method).pending.val

\* what an uncached lookup of urlPath for method gives on the current root
Uncached(urlPath, method) ==
  Lookup(heap[root], urlPath,
         [d \in Targets(heap[root]) |-> HandlerNow(d, method) # NoHandler]).result

\* C25: a request served from the lookup cache gets the target and params
\* an uncached lookup of its path on the current trie gives.
C25_HitEqualsUncached ==
  [][\A r \in Slots :
       (Begins(r) /\ req'[r].pc = "resolved") =>
         req'[r].result = Uncached(req'[r].path, req'[r].method)]_vars

\* a path is the mount prefix 'api' or lies under it
UnderApi(path) == path = "/api" \/ StartsWith(path, "/api/")

\* C29: a request is resolved against the trie only if its normalized path
\* is the mount prefix or begins with the prefix followed by '/', and the
\* path looked up is the normalized path without the prefix; a request
\* outside the prefix is answered by static or 404 at once, and no answer
\* of a route is given to it.
C29_MountPrefix ==
  [][\A r \in Slots : \A q \in {req'[r]} :
       (/\ q # req[r]
        /\ q.method \in Accepted /\ q.length <= 8192
        /\ ~Malformed(q.pathname)) =>
         \A normalized \in {PosixNormalize(DecodeURI(q.pathname))} :
           /\ Begins(r) =>
                /\ ~UnderApi(normalized) =>
                     /\ q.pc = "done"
                     /\ q.resp = IF statik THEN FromStatic ELSE NotFound
                     /\ UNCHANGED <<lookupCache, handlerCache>>
                /\ q.pc # "done" =>
                     /\ UnderApi(normalized)
                     /\ FilterBoolean(Split(q.path)) = Tail(FilterBoolean(Split(normalized)))
           /\ (q.pc = "done" /\ q.resp.kind \in {"handler", "head"}) =>
                UnderApi(normalized)]_vars

\* C29 witness: GET /apia, outside the prefix 'api' though it begins with
\* its letters, was answered 404 while the trie held the route /a
C29_Witness ==
  \E r \in Slots :
    /\ req[r].pc = "done" /\ req[r].pathname = "/apia"
    /\ FileUrl("/a.ts") \in Targets(heap[root])
    /\ req[r].resp = NotFound

(***************************************************************************)
(* Claims about the LRUCache, checked under SpecCache                      *)
(***************************************************************************)

\* C26: whatever use and clear calls were made, and however the fn of the
\* use calls overlapped, the cache holds at most max entries, each key once.
C26_AtMostMaxEntries ==
  /\ Len(lru) <= CacheCapacity
  /\ Cardinality(Keys(lru)) = Len(lru)

\* C26 witness: the cache is full after more stores than it has room for,
\* while two use calls, one of them on a key it holds, await their fn
C26_Witness ==
  /\ Len(lru) = CacheCapacity
  /\ gone.key # Null
  /\ \A u \in 1..MaxUses : uses[u] # Null
  /\ \E u \in 1..MaxUses : uses[u] \in Keys(lru)

\* C27: the entries are held oldest touch first, and the key a store drops
\* from a full cache is the one touched longest ago, a touch being the
\* store that wrote the key or a use that found it.
C27_EvictsLeastRecentlyTouched ==
  [][/\ \A i \in 1..Len(lru') : \A j \in 1..Len(lru') :
          i < j => touchedAt'[lru'[i].key] < touchedAt'[lru'[j].key]
     /\ \A k \in Keys(lru) \ Keys(lru') :
          lru' # <<>> =>
            /\ Len(lru) = CacheCapacity
            /\ \A j \in Keys(lru) : touchedAt[k] <= touchedAt[j]
            /\ Keys(lru) \ Keys(lru') = {k}]_vars

\* C27 witness: an entry stored before the evicted entry was stored is
\* still held, because a use found it after the evicted entry's last touch
C27_Witness ==
  /\ gone.key # Null
  /\ \E i \in 1..Len(lru) :
       /\ lru[i].made < gone.touched
       /\ touchedAt[lru[i].key] > gone.touched

(***************************************************************************)
(* Claims about the fetch pool, checked under SpecPool                     *)
(***************************************************************************)

\* the fetches in flight for the pool key k: the call and the item of each
Fetching(k) ==
  { t \in (1..MaxCalls) \X (1..MaxItems) :
      fetchers[t[1]].key = k /\ fetchers[t[1]].task[t[2]] = "fetch" }

\* C30: the fetches in flight for a pool key, over all the calls that share
\* the key, all hold a permit of the key's one pool and are never more than
\* the concurrency that pool was made with.
C30_PoolConcurrency ==
  \A k \in PoolKeys :
    Fetching(k) # {} =>
      /\ pools[k] # 0
      /\ \A t \in Fetching(k) : fetchers[t[1]].pool = pools[k]
      /\ Cardinality(Fetching(k)) <= semaphores[pools[k]].concurrency

\* C30 witness: two calls share a pool of concurrency 2, each has a fetch
\* in flight, and one of them waits in acquire() for its next item
C30_Witness ==
  \E k \in PoolKeys :
    /\ pools[k] # 0 /\ semaphores[pools[k]].concurrency = 2
    /\ Cardinality(Fetching(k)) = 2
    /\ \A c \in 1..MaxCalls : \E i \in 1..MaxItems : <<c, i>> \in Fetching(k)
    /\ \E c \in 1..MaxCalls : fetchers[c].pc = "acquire"

\* the results the stream of the call c holds for its item i
ResultsFor(c, i) == { k \in 1..Len(fetchers[c].out) : fetchers[c].out[k].source = i }

\* C31: a call that has closed its stream wrote exactly one result for each
\* of its items, and the values and errors fx.all returns are as many as its
\* requests.
C31_OneResultPerItem ==
  \A c \in 1..MaxCalls :
    fetchers[c].pc = "closed" =>
      /\ \A i \in 1..fetchers[c].items : Cardinality(ResultsFor(c, i)) = 1
      /\ fetchers[c].kind = "fx.all" =>
           Len(FetchAll(fetchers[c].out).values) + Len(FetchAll(fetchers[c].out).errors)
             = fetchers[c].items

\* the sources of the results of settled fetches in the stream of the call c
YieldedFetches(c) ==
  LET f == fetchers[c]
      settled == SelectSeq(f.out, LAMBDA r : f.task[r.source] \in {"ok", "failed"})
  IN [k \in 1..Len(settled) |-> settled[k].source]

\* C33: the stream of a call holds the results of its fetches in the order
\* in which the fetches settled.
C33_CompletionOrder ==
  \A c \in 1..MaxCalls : YieldedFetches(c) = fetchers[c].completed

\* C33 witness: an fx.iter call of two items whose second fetch settled first
\* has closed its stream
C33_Witness ==
  \E c \in 1..MaxCalls :
    /\ fetchers[c].kind = "fx.iter" /\ fetchers[c].pc = "closed"
    /\ fetchers[c].completed = <<2, 1>>

\* C34: when every request of an fx.all call succeeded, it returns no errors
\* and values[i] is the result of requests[i].
C34_ValuesInRequestOrder ==
  \A c \in 1..MaxCalls :
    LET f == fetchers[c] IN
    (f.kind = "fx.all" /\ f.pc = "closed" /\ \A i \in 1..f.items : f.task[i] = "ok") =>
      /\ ~FetchAll(f.out).hasErrors
      /\ FetchAll(f.out).values = [i \in 1..f.items |-> i]

\* the permits of the Semaphore p that are held: the fetches in flight on it
Held(p) ==
  { t \in (1..MaxCalls) \X (1..MaxItems) :
      fetchers[t[1]].pool = p /\ fetchers[t[1]].task[t[2]] = "fetch" }

\* C40: for every Semaphore the permits held and the free capacity add up to
\* the concurrency it was made with (so with no task running the capacity
\* is the concurrency).
C40_PermitsConserved ==
  \A p \in 1..Len(semaphores) :
    semaphores[p].capacity + Cardinality(Held(p)) = semaphores[p].concurrency

\* C37: once the deadline of a call has fired none of its items starts a
\* fetch, and the call closes its stream.
C37_DeadlineStopsCall ==
  /\ [][\A c \in 1..MaxCalls : \A i \in 1..MaxItems :
          (fetchers[c].aborted /\ fetchers[c].task[i] # "fetch")
            => fetchers'[c].task[i] # "fetch"]_vars
  /\ \A c \in 1..MaxCalls :
       fetchers[c].aborted ~> fetchers[c].pc = "closed"

(***************************************************************************)
(* Claims about _fetch, checked under SpecFetch                            *)
(***************************************************************************)

\* the call is over
Over == fetchRun.pc \in {"returned", "thrown"}

\* the attempts made are within the budget: at most maxAttempts, and
\* exactly one for a method that is not idempotent once the call is over;
\* the call returns when an attempt succeeded
WithinBudget ==
  /\ fetchRun.made <= fetchRun.budget
  /\ (Over /\ fetchRun.method \notin {"GET", "HEAD", "PUT", "DELETE", "OPTIONS", "TRACE"}) =>
       fetchRun.made = 1
  /\ (\E k \in 1..Len(fetchRun.settled) : fetchRun.settled[k] = Ok) =>
       fetchRun.pc = "returned"
  /\ fetchRun.pc = "returned" =>
       fetchRun.settled # <<>> /\ fetchRun.settled[Len(fetchRun.settled)] = Ok

\* the error of the last attempt
LastAttemptError == fetchRun.settled[Len(fetchRun.settled)]

\* C32 as stated: within the budget, and a call that fails reports the error
\* of its last attempt.
C32_LastErrorReported ==
  /\ WithinBudget
  /\ fetchRun.pc = "thrown" => fetchRun.error = LastAttemptError

\* the deadline fired while the call waited as Retry-After asked
AbortedInDelay ==
  /\ fetchRun.aborted
  /\ LastAttemptError.name = "FetchError" /\ LastAttemptError.retryAfter = "later"

\* C32 amended: within the budget, and a call that fails reports the error
\* of its last attempt, or the reason of the deadline when the deadline
\* fired during a Retry-After wait.
C32_LastErrorOrDeadline ==
  /\ WithinBudget
  /\ fetchRun.pc = "thrown" =>
       fetchRun.error = IF AbortedInDelay THEN DeadlineExceeded ELSE LastAttemptError

\* C32 witness: a GET with maxAttempts 3 failed with the deadline's reason
\* during the wait after its second attempt
C32_Witness ==
  /\ fetchRun.pc = "thrown" /\ fetchRun.method = "GET" /\ fetchRun.budget = 3
  /\ fetchRun.made = 2 /\ AbortedInDelay /\ fetchRun.error = DeadlineExceeded

(***************************************************************************)
(* Claims about the trie, checked under SpecTrie                           *)
(***************************************************************************)

\* the segments insert keeps of the path of the file f
Canonical(f) == FilterKept(Split(RoutePath(f)))

\* the last lookup, when one was made since the last insert
Looked == lk.urlPath # Null
LookedUp(urlPath) == lk.urlPath = urlPath /\ lk.out.wait = "done"

\* a node that is a terminal route and the parent of an optional catch-all
Collides(T, n) == ~T[n].placeholder /\ T[n].optionalRestSlugName # Null

\* C7: in every trie produced by successful inserts only, no node is both a
\* terminal route and the parent of an optional catch-all, and no lookup on
\* such a trie throws.
C7_NoCollisionAfterInserts ==
  nFailed = 0 =>
    /\ \A n \in DOMAIN tree : ~Collides(tree, n)
    /\ (Looked => lk.out.wait # "throw")

\* The ways the path segs can be matched from the node at path node on, each
\* as the sequence of the kinds of child taken (0 literal, 1 slug, 2 required
\* catch-all, 3 optional catch-all), ending at a target validate accepts.
RECURSIVE Derivations(_, _, _, _)
Derivations(T, segs, node, invalid) ==
  LET this == T[node]
      accepted(n) == n \in DOMAIN T /\ T[n].data \notin (invalid \cup {Null})
      rest == IF this.restSlugName # Null /\ accepted(Append(node, "[...]"))
              THEN {<<2>>} ELSE {}
      opt == IF this.optionalRestSlugName # Null /\ accepted(Append(node, "[[...]]"))
             THEN {<<3>>} ELSE {}
  IN
  IF Len(node) = Len(segs)
  THEN (IF ~this.placeholder /\ accepted(node) THEN {<<>>} ELSE {}) \cup opt
  ELSE LET seg == segs[Len(node) + 1] IN
       (IF HasChild(T, node, seg)
        THEN { <<0>> \o d : d \in Derivations(T, segs, Append(node, seg), invalid) }
        ELSE {})
       \cup (IF this.slugName # Null
             THEN { <<1>> \o d : d \in Derivations(T, segs, Append(node, "[]"), invalid) }
             ELSE {})
       \cup rest \cup opt

\* the priority of a derivation: its kinds read as a number in base 4, the
\* first segment's kind weighing most; smaller is preferred
RECURSIVE Priority(_, _)
Priority(d, width) ==
  IF d = <<>> THEN 0 ELSE Head(d) * 4^(width - 1) + Priority(Tail(d), width - 1)

\* the target and the params a derivation stands for
RECURSIVE DerivationMatch(_, _, _, _, _)
DerivationMatch(T, segs, d, node, params) ==
  IF d = <<>> THEN [match |-> T[node].data, params |-> params]
  ELSE LET seg == IF Len(node) < Len(segs) THEN segs[Len(node) + 1] ELSE ""
           restOf == [list |-> TRUE, v |-> SubSeq(segs, Len(node) + 1, Len(segs))]
       IN CASE Head(d) = 0 ->
                 DerivationMatch(T, segs, Tail(d), Append(node, seg), params)
            [] Head(d) = 1 ->
                 DerivationMatch(T, segs, Tail(d), Append(node, "[]"),
                                 (T[node].slugName :> [list |-> FALSE, v |-> <<seg>>]) @@ params)
            [] Head(d) = 2 ->
                 [match |-> T[Append(node, "[...]")].data,
                  params |-> (T[node].restSlugName :> restOf) @@ params]
            [] Head(d) = 3 ->
                 [match |-> T[Append(node, "[[...]]")].data,
                  params |-> (T[node].optionalRestSlugName :> restOf) @@ params]

\* the match of the preferred derivation, or no match when there is none
Preferred(T, segs, invalid) ==
  LET ds == Derivations(T, segs, <<>>, invalid)
      width == Len(segs) + 1
  IN IF ds = {} THEN [match |-> Null, params |-> [name \in {} |-> 0]]
     ELSE LET best == CHOOSE d \in ds :
                        \A e \in ds : Priority(d, width) <= Priority(e, width)
          IN DerivationMatch(T, segs, best, <<>>, [name \in {} |-> 0])

\* C8: a lookup that settles returns the match first in the order literal,
\* slug, required catch-all, optional catch-all (taken segment by segment)
\* among those validate accepts; so /posts/archive resolves to the literal
\* route over /posts/[id], and /p2/1 to the slug route over /p2/[...rest].
C8_PriorityOrder ==
  /\ (Looked /\ lk.out.wait = "done") =>
       lk.out.result = Preferred(tree, FilterBoolean(Split(lk.urlPath)), lk.invalid)
  /\ ({"/posts/archive.ts", "/posts/[id].ts"} \subseteq routes
        /\ LookedUp("/posts/archive") /\ lk.invalid = {}) =>
       lk.out.result.match = FileUrl("/posts/archive.ts")
  /\ ({"/p2/[id].ts", "/p2/[...rest].ts"} \subseteq routes
        /\ LookedUp("/p2/1") /\ lk.invalid = {}) =>
       lk.out.result.match = FileUrl("/p2/[id].ts")

\* C8 witness: with both routes inserted and valid, /posts/archive was looked
\* up and resolved to the literal route
C8_Witness ==
  /\ {"/posts/archive.ts", "/posts/[id].ts"} \subseteq routes
  /\ LookedUp("/posts/archive") /\ lk.invalid = {}
  /\ lk.out.result.match = FileUrl("/posts/archive.ts")

\* no dynamic child at the root, so only routes under a literal first
\* segment can match a path
RootIsLiteralOnly ==
  /\ tree[<<>>].slugName = Null
  /\ tree[<<>>].restSlugName = Null
  /\ tree[<<>>].optionalRestSlugName = Null

\* /posts/[id] is the only route under /posts
OnlyPostsId ==
  /\ { f \in routes : Canonical(f) # <<>> /\ Head(Canonical(f)) = "posts" }
       = {"/posts/[id].ts"}
  /\ RootIsLiteralOnly

\* C9: with /posts/[id] the only route under /posts, /posts/s resolves to it
\* with params exactly {id: s}, and /posts and /posts/s/t resolve to no match.
C9_SingleSlug ==
  OnlyPostsId =>
    /\ \A seg \in {"42", "archive", "[]"} :
         (lk.urlPath = "/posts/" \o seg /\ lk.invalid = {}) =>
           /\ lk.out.wait = "done"
           /\ lk.out.result.match = FileUrl("/posts/[id].ts")
           /\ lk.out.result.params = ("id" :> [list |-> FALSE, v |-> <<seg>>])
    /\ lk.urlPath \in {"/posts", "/posts/42/extra"} =>
         /\ lk.out.wait = "done"
         /\ lk.out.result.match = Null

\* /files/[...path] is inserted (and then the only route under /files)
HasFilesRest == "/files/[...path].ts" \in routes /\ RootIsLiteralOnly

\* the trailing segments of the looked-up paths under /files
FilesTail ==
  ("/files/a" :> <<"a">>) @@ ("/files/a/b/c" :> <<"a", "b", "c">>)
  @@ ("/files/[...]" :> <<"[...]">>) @@ ("/files/[[...]]" :> <<"[[...]]">>)

\* C10: /files/[...path] matches /files/s1/.../sn for n >= 1 with path bound
\* to [s1, ..., sn] in request order, and does not match /files.
C10_RequiredCatchAll ==
  HasFilesRest =>
    /\ \A urlPath \in DOMAIN FilesTail :
         (lk.urlPath = urlPath /\ lk.invalid = {}) =>
           /\ lk.out.wait = "done"
           /\ lk.out.result.match = FileUrl("/files/[...path].ts")
           /\ lk.out.result.params = ("path" :> [list |-> TRUE, v |-> FilesTail[urlPath]])
    /\ lk.urlPath = "/files" =>
         /\ lk.out.wait = "done"
         /\ lk.out.result.match = Null

\* the trailing segments of the looked-up paths under /files, /files included
FilesTailOrNone == ("/files" :> <<>>) @@ FilesTail

\* C11: with /files/[[...path]] inserted, /files resolves to it with path
\* bound to the empty list, and /files/s1/.../sn (n >= 1) resolves to it with
\* path bound to [s1, ..., sn] in request order.
C11_OptionalCatchAll ==
  \A urlPath \in DOMAIN FilesTailOrNone :
    ("/files/[[...path]].ts" \in routes /\ lk.urlPath = urlPath
       /\ FileUrl("/files/[[...path]].ts") \notin lk.invalid) =>
      /\ lk.out.wait = "done"
      /\ lk.out.result.match = FileUrl("/files/[[...path]].ts")
      /\ lk.out.result.params = ("path" :> [list |-> TRUE, v |-> FilesTailOrNone[urlPath]])

\* the path of the file f has no bracketed segment
LiteralOnly(f) == \A i \in 1..Len(Canonical(f)) : ~StartsWith(Canonical(f)[i], "[")

\* C12: when every insert returned, the lookup of the path of a literal-only
\* route, with a predicate that accepts its target, returns that target with
\* empty params.
C12_LiteralRoundTrip ==
  nFailed = 0 =>
    \A f \in routes :
      (LiteralOnly(f) /\ Looked /\ FilterBoolean(Split(lk.urlPath)) = Canonical(f)
         /\ FileUrl(f) \notin lk.invalid) =>
        /\ lk.out.wait = "done"
        /\ lk.out.result.match = FileUrl(f)
        /\ DOMAIN lk.out.result.params = {}

\* the message names the file f: its path below fsRoot stands in it as a word
Names(message, f) ==
  \E close \in {" ", "."} : Contains(message, " " \o Substring(f, 1) \o close)

\* C13: the insert of a second file with the canonical path of an inserted
\* file g throws the parallel-pages error, whose message names both files,
\* and leaves the target of g in place.
C13_ConflictNamesBoth ==
  \A g \in routes :
    (lastInsert.file # Null /\ Canonical(g) = Canonical(lastInsert.file)
       /\ (g # lastInsert.file \/ lastInsert.err # ErrNone)) =>
      /\ lastInsert.err = ErrParallel
      /\ Names(lastInsert.message, g)
      /\ Names(lastInsert.message, lastInsert.file)
      /\ \E n \in DOMAIN tree : tree[n].data = FileUrl(g)

\* C14: /(g)/posts/archive and /posts/archive are one node: the insert of
\* either after the other throws the parallel-pages error, no node of the
\* trie has a parenthesised key, and the route stored as /(g)/posts/archive
\* is matched by /posts/archive.
C14_GroupsInvisible ==
  /\ \A f, g \in {"/(g)/posts/archive.ts", "/posts/archive.ts"} :
       (f # g /\ lastInsert.file = f /\ g \in routes) =>
         lastInsert.err = ErrParallel /\ f \notin routes
  /\ \A n \in DOMAIN tree : \A i \in 1..Len(n) : n[i] # "(g)"
  /\ ("/(g)/posts/archive.ts" \in routes /\ lk.urlPath = "/posts/archive"
        /\ FileUrl("/(g)/posts/archive.ts") \notin lk.invalid) =>
       /\ lk.out.wait = "done"
       /\ lk.out.result.match = FileUrl("/(g)/posts/archive.ts")
       /\ DOMAIN lk.out.result.params = {}

\* C14 witness: with /(g)/posts/archive inserted, the insert of
\* /posts/archive threw and /posts/archive was then resolved to the grouped
\* file
C14_Witness ==
  /\ "/(g)/posts/archive.ts" \in routes
  /\ lastInsert.file = "/posts/archive.ts" /\ lastInsert.err = ErrParallel
  /\ LookedUp("/posts/archive")
  /\ lk.out.result.match = FileUrl("/(g)/posts/archive.ts")

\* a catch-all segment of the path of f is followed by another segment
CatchAllNotLast(f) ==
  \E i \in 1..(Len(Canonical(f)) - 1) :
    StartsWith(Canonical(f)[i], "[...") \/ StartsWith(Canonical(f)[i], "[[...")

\* C15: the insert of a path with a segment after a required or optional
\* catch-all throws, and no node gets the target of such a path.
C15_CatchAllMustBeLast ==
  /\ (lastInsert.file # Null /\ CatchAllNotLast(lastInsert.file)) =>
       lastInsert.err # ErrNone
  /\ \A f \in TrieFiles :
       CatchAllNotLast(f) =>
         f \notin routes /\ (\A n \in DOMAIN tree : tree[n].data # FileUrl(f))

\* C15 witness: /x/[[...a]]/b was inserted and rejected for its catch-all
C15_Witness ==
  lastInsert.file = "/x/[[...a]]/b.ts" /\ lastInsert.err = ErrCatchAllLast

\* C16: no node has both a required and an optional catch-all name, after
\* inserts that returned or threw; the insert adding the second kind under
\* /files throws the conflict error, whichever kind came first.
C16_OneCatchAllKind ==
  /\ \A n \in DOMAIN tree :
       tree[n].restSlugName = Null \/ tree[n].optionalRestSlugName = Null
  /\ (lastInsert.file = "/files/[[...path]].ts" /\ "/files/[...path].ts" \in routes) =>
       lastInsert.err = ErrReqOpt
  /\ (lastInsert.file = "/files/[...path].ts" /\ "/files/[[...path]].ts" \in routes) =>
       lastInsert.err = ErrOptReq

\* C16 witness: /files/[...path] was rejected after /files/[[...path]]
C16_Witness ==
  /\ "/files/[[...path]].ts" \in routes
  /\ lastInsert.file = "/files/[...path].ts" /\ lastInsert.err = ErrOptReq

\* the child key a segment is stored under, and the name a bracketed
\* segment binds
SegKey(seg) ==
  IF StartsWith(seg, "[[...") THEN "[[...]]"
  ELSE IF StartsWith(seg, "[...") THEN "[...]"
  ELSE IF StartsWith(seg, "[") THEN "[]"
  ELSE seg
SegName(seg) ==
  IF StartsWith(seg, "[[...") THEN SubSeq(seg, 6, Len(seg) - 2)
  ELSE IF StartsWith(seg, "[...") THEN SubSeq(seg, 5, Len(seg) - 1)
  ELSE SubSeq(seg, 2, Len(seg) - 1)

\* the node path of the first i segments of the file f
KeyPath(f, i) == [j \in 1..i |-> SegKey(Canonical(f)[j])]

\* the bracketed segments of the file f, by position
Bracketed(f) == { i \in 1..Len(Canonical(f)) : StartsWith(Canonical(f)[i], "[") }

\* C17: two inserted routes that reach the same node by the same kind of
\* bracketed segment bind the same name there, no inserted route binds a
\* name twice, and the insert of a path that breaks either rule throws.
C17_OneNamePerKind ==
  /\ \A g, h \in routes : \A i \in Bracketed(g) \cap Bracketed(h) :
       KeyPath(g, i) = KeyPath(h, i) =>
         SegName(Canonical(g)[i]) = SegName(Canonical(h)[i])
  /\ \A g \in routes : \A i, j \in Bracketed(g) :
       i # j => SegName(Canonical(g)[i]) # SegName(Canonical(g)[j])
  /\ (lastInsert.file = "/files/[...other].ts" /\ "/files/[...path].ts" \in routes) =>
       lastInsert.err = ErrDifferentSlug
  /\ (lastInsert.file = "/posts/[slug].ts" /\ "/posts/[id].ts" \in routes) =>
       lastInsert.err = ErrDifferentSlug
  /\ lastInsert.file = "/p2/[id]/[...id].ts" => lastInsert.err = ErrDuplicateSlug

\* C17 witness: /files/[...other] was rejected after /files/[...path]
C17_Witness ==
  /\ "/files/[...path].ts" \in routes
  /\ lastInsert.file = "/files/[...other].ts" /\ lastInsert.err = ErrDifferentSlug

\* C28: within one lookup no node is entered by more than one #lookup call,
\* also for paths with a segment that reads as a synthetic child key.
C28_NoNodeEnteredTwice ==
  Looked =>
    LET nodes == Entered(tree, FilterBoolean(Split(lk.urlPath)), <<>>, 0,
                         Validate(tree, lk.invalid)).nodes
    IN \A i, j \in 1..Len(nodes) : nodes[i] = nodes[j] => i = j

\* the big-step reading of #lookup and the lookup machine agree on whether
\* a lookup that settles finds a match
EnteredAgrees ==
  (Looked /\ lk.out.wait = "done") =>
    (Entered(tree, FilterBoolean(Split(lk.urlPath)), <<>>, 0,
             Validate(tree, lk.invalid)).found <=> lk.out.result # NoMatch)

\* the segments of the last lookup's path
LookedSegments == FilterBoolean(Split(lk.urlPath))

\* C36: lookup backtracks: a lookup that settles returns null only when no
\* way through the trie ends at a target validate accepts; with the routes
\* /blog/[id], /blog/[id]/comments/[cid] and /[...rest], /blog/1/2 resolves
\* to /[...rest] with rest = ['blog','1','2']; and with /p2/[id] rejected by
\* validate, /p2/1 resolves to /p2/[...rest].
C36_Backtracks ==
  /\ (Looked /\ lk.out.wait = "done" /\ lk.out.result = NoMatch) =>
       Derivations(tree, LookedSegments, <<>>, lk.invalid) = {}
  /\ (routes = {"/blog/[id].ts", "/blog/[id]/comments/[cid].ts", "/[...rest].ts"}
        /\ Looked /\ lk.urlPath = "/blog/1/2" /\ lk.invalid = {}) =>
       /\ lk.out.wait = "done"
       /\ lk.out.result = Match(FileUrl("/[...rest].ts"),
                                "rest" :> ListValue(<<"blog", "1", "2">>))
  /\ ({"/p2/[id].ts", "/p2/[...rest].ts"} \subseteq routes
        /\ Looked /\ lk.urlPath = "/p2/1" /\ lk.invalid = {FileUrl("/p2/[id].ts")}) =>
       /\ lk.out.wait = "done"
       /\ lk.out.result = Match(FileUrl("/p2/[...rest].ts"),
                                "rest" :> ListValue(<<"1">>))

\* C36 witness: with the three routes inserted, /blog/1/2 was looked up and
\* resolved to /[...rest]
C36_Witness ==
  /\ routes = {"/blog/[id].ts", "/blog/[id]/comments/[cid].ts", "/[...rest].ts"}
  /\ LookedUp("/blog/1/2") /\ lk.invalid = {}
  /\ lk.out.result.match = FileUrl("/[...rest].ts")

\* the params the route of the file f binds on the request segments segs: a
\* slug the segment at its position, a catch-all the segments from its
\* position on
RouteParams(f, segs) ==
  LET path == Canonical(f) IN
  [name \in { SegName(path[i]) : i \in Bracketed(f) } |->
     LET i == CHOOSE j \in Bracketed(f) : SegName(path[j]) = name IN
     IF StartsWith(path[i], "[...") \/ StartsWith(path[i], "[[...")
     THEN ListValue(SubSeq(segs, i, Len(segs)))
     ELSE IF i <= Len(segs) THEN SlugValue(segs[i]) ELSE SlugValue("")]

\* C38: a match returned by lookup carries exactly the params of the matched
\* route: one key per dynamic or catch-all segment, a slug bound to the
\* request segment at its position and a catch-all to the remaining ones.
C38_ParamsOfMatchedRoute ==
  (Looked /\ lk.out.wait = "done" /\ lk.out.result.match # Null) =>
    \A f \in routes :
      FileUrl(f) = lk.out.result.match =>
        lk.out.result.params = RouteParams(f, LookedSegments)

\* C39: an insert that throws leaves every lookup as it was: for every path
\* and every validate, lookup on the trie after it settles as on the trie
\* before it.
C39_FailedInsertKeepsLookups ==
  [][ nFailed' = nFailed + 1 =>
        \A after \in {tree'} :
          \A urlPath \in TriePaths : \A invalid \in SUBSET Targets(tree) :
            Lookup(after, urlPath, Validate(after, invalid))
              = Lookup(tree, urlPath, Validate(tree, invalid)) ]_vars

====
